---- MODULE Spec2Model ----
(***************************************************************************)
(* Note store and context graph of the SQLite adapter (SqliteAdapter):    *)
(* the notes, contexts and notes_contexts tables, and the operations      *)
(* createNote, updateNote, deleteNote, upsertEmbedding and renameContext  *)
(* that write them, and the queries fetchNotes, filterNotes and           *)
(* executeSemanticSearch that read them.                                   *)
(*                                                                         *)
(* The schema and the connection are not part of the adapter: the link    *)
(* table's primary key (note_id, context_id), the unique context name,    *)
(* the created_at default of a link row, the created_at and updated_at    *)
(* defaults of a note row and slugToSentenceCase are                      *)
(* modelled from the design document, and the raw connection on which     *)
(* renameContext runs BEGIN/COMMIT/ROLLBACK is taken to be the connection *)
(* its statements run on.                                                  *)
(*                                                                         *)
(* A handler is an async function: between two awaited statements the     *)
(* statements of other calls may run.  The operators below run a whole    *)
(* call without interruption; the interleaved calls section runs calls    *)
(* one awaited statement at a time:                                       *)
(*   calls[p]                       the call in flight in slot p: its     *)
(*                                  operation, arguments, local           *)
(*                                  variables and the statement it        *)
(*                                  awaits next                           *)
(*   txn                            the connection's open transaction:    *)
(*                                  the tables as they were at BEGIN      *)
(*                                                                         *)
(* A handler is a sequence of SQL statements.  It is modelled as an       *)
(* operator that threads a database record D through its statements:      *)
(*   D.notes, D.contexts, D.links   the three tables                      *)
(*   D.nextId                       the next fresh uuid                   *)
(*   D.clock                        the wall clock (link created_at)      *)
(*   D.w, D.fail                    statements attempted so far, and the   *)
(*                                  index of the statement on which       *)
(*                                  the store raises an infrastructure    *)
(*                                  error (0: none)                        *)
(*   D.crash                        TRUE when, instead, the process is    *)
(*                                  interrupted before that statement     *)
(*   D.upd                          the notes whose row an UPDATE of      *)
(*                                  renameContext has rewritten           *)
(*   D.err                          "ok", or the error that was thrown;   *)
(*                                  once thrown, the remaining statements *)
(*                                  of the try block are skipped          *)
(***************************************************************************)
EXTENDS Integers, Sequences, FiniteSets, Bags, TLC

VARIABLES notes, contexts, links, nextId, clock, last, calls, txn

vars == <<notes, contexts, links, nextId, clock, last, calls, txn>>

(***************************************************************************)
(* Bounds of the model.                                                    *)
(***************************************************************************)
NoteIds == {"n1", "n2"}
Names == {"work", "urgent", "home"}
MaxCtxIds == 3
MaxClock == 1
MaxListLen == 2

Null == "null"

\* The value of a key that a patch does not have.
Undef == "undefined"

\* Contents are sequences of segments: "txt" is plain text, any other
\* segment X stands for the cross-reference markup [[X]].
PlainNote == [content |-> <<"txt">>, key_context |-> Null]
WorkNote == [content |-> <<"WORK">>, key_context |-> "work"]

\* The names the update-centred specification draws from.
GraphNames == {"work", "urgent"}

NameLists(S) == UNION {[1..n -> S] : n \in 0..MaxListLen}

(***************************************************************************)
(* Rows.                                                                   *)
(***************************************************************************)
NoNote ==
    [present |-> FALSE, content |-> <<>>, key_context |-> Null,
     embedding |-> Null, embedding_model |-> Null,
     tags |-> <<>>, created_at |-> 0, updated_at |-> 0]

NoteRow(content, key_context) ==
    [present |-> TRUE, content |-> content, key_context |-> key_context,
     embedding |-> Null, embedding_model |-> Null,
     tags |-> <<>>, created_at |-> 0, updated_at |-> 0]

ContextRow(id, name) == [id |-> id, name |-> name]

LinkRow(noteId, contextId, createdAt) ==
    [note_id |-> noteId, context_id |-> contextId, created_at |-> createdAt]

Range(s) == {s[i] : i \in DOMAIN s}

\* The rows of bag B that satisfy / do not satisfy Keep.
BagFilter(B, Keep(_)) == [r \in {x \in DOMAIN B : Keep(x)} |-> B[r]]

(***************************************************************************)
(* Schema constraints.                                                     *)
(***************************************************************************)
\* Variant: the table has no primary key.
LinkPkOk_none(L) == TRUE

\* notes_contexts: at most one row per (note_id, context_id).
LinkPkOk(L) ==
    /\ \A r \in DOMAIN L : L[r] = 1
    /\ \A r1, r2 \in DOMAIN L :
          (r1.note_id = r2.note_id /\ r1.context_id = r2.context_id) => r1 = r2

\* contexts: name is unique.
ContextNameOk(C) ==
    \A c1, c2 \in C : c1.name = c2.name => c1 = c2

(***************************************************************************)
(* Statements.                                                             *)
(***************************************************************************)
\* The handler stops at statement D.fail: the store raised an error, or
\* the process was interrupted before the statement.
Stopped(D) == IF D.crash THEN "Interrupted" ELSE "StoreFailure"

\* One write statement whose effect is the database E.  It is skipped when
\* an error has already been thrown, and raises StoreFailure when it is the
\* statement on which the store fails.
Stmt(D, E) ==
    IF D.err # "ok" THEN D
    ELSE IF D.w + 1 = D.fail
         THEN [D EXCEPT !.w = @ + 1, !.err = Stopped(D)]
         ELSE [E EXCEPT !.w = D.w + 1]

\* A read statement, or the reads that end a handler: it changes no table
\* and fails when the store's failure falls on it.
Read(D) ==
    IF D.err # "ok" THEN D
    ELSE IF D.w + 1 = D.fail
         THEN [D EXCEPT !.w = @ + 1, !.err = Stopped(D)]
         ELSE [D EXCEPT !.w = @ + 1]

Throw(D, e) == IF D.err # "ok" THEN D ELSE [D EXCEPT !.err = e]

ContextByName(D, name) == {c \in D.contexts : c.name = name}

\* Variant: the id pushed for an existing context is a fresh one.
ContextId_fresh(D, name) == D.nextId

ContextId(D, name) == (CHOOSE c \in ContextByName(D, name) : TRUE).id

\* Names of the contexts a note is linked to (fetchContextsForNote).
fetchContextsForNote(L, C, noteId) ==
    {c.name : c \in {x \in C : \E r \in DOMAIN L :
                        r.note_id = noteId /\ r.context_id = x.id}}

LinksOfNote(L, noteId) == BagFilter(L, LAMBDA r : r.note_id = noteId)

(***************************************************************************)
(* upsertContexts                                                          *)
(***************************************************************************)
InsertContext(D, name) ==
    LET E == [D EXCEPT !.contexts = @ \cup {ContextRow(D.nextId, name)},
                       !.nextId = @ + 1]
    IN  IF D.err = "ok" /\ D.w + 1 # D.fail /\ ~ContextNameOk(E.contexts)
        THEN [D EXCEPT !.w = @ + 1, !.err = "ConstraintViolation"]
        ELSE Stmt(D, E)

\* Variant: every name is inserted without a lookup, into a table that
\* does not require the name to be unique.
RECURSIVE upsertLoop_noLookup(_, _, _, _)
upsertLoop_noLookup(D, contextNames, i, contextIds) ==
    IF i > Len(contextNames) \/ D.err # "ok"
    THEN [db |-> D, ids |-> contextIds]
    ELSE upsertLoop_noLookup(
             Stmt(D, [D EXCEPT
                 !.contexts = @ \cup {ContextRow(D.nextId, contextNames[i])},
                 !.nextId = @ + 1]),
             contextNames, i + 1, Append(contextIds, D.nextId))

RECURSIVE upsertLoop(_, _, _, _)
upsertLoop(D, contextNames, i, contextIds) ==
    IF i > Len(contextNames) \/ D.err # "ok"
    THEN [db |-> D, ids |-> contextIds]
    ELSE LET name == contextNames[i]
         IN  IF ContextByName(D, name) # {}
             THEN upsertLoop(D, contextNames, i + 1,
                             Append(contextIds, ContextId(D, name)))
             ELSE upsertLoop(InsertContext(D, name), contextNames, i + 1,
                             Append(contextIds, D.nextId))

upsertContexts(D, contextNames) ==
    IF Len(contextNames) = 0
    THEN [db |-> D, ids |-> <<>>]
    ELSE upsertLoop(D, contextNames, 1, <<>>)

(***************************************************************************)
(* linkNoteToContexts                                                      *)
(***************************************************************************)
\* Variant: the contexts left without a link are deleted with the links.
DeleteLinksOfNote_collect(D, noteId) ==
    Stmt(D, [D EXCEPT
        !.links = BagFilter(@, LAMBDA r : r.note_id # noteId),
        !.contexts = {c \in @ : \E r \in DOMAIN D.links :
                         r.context_id = c.id /\ r.note_id # noteId}])

DeleteLinksOfNote(D, noteId) ==
    Stmt(D, [D EXCEPT !.links = BagFilter(@, LAMBDA r : r.note_id # noteId)])

RECURSIVE RowsBag(_, _, _)
RowsBag(noteId, contextIds, createdAt) ==
    IF contextIds = <<>> THEN EmptyBag
    ELSE SetToBag({LinkRow(noteId, Head(contextIds), createdAt)})
         (+) RowsBag(noteId, Tail(contextIds), createdAt)

InsertLinks(D, noteId, contextIds) ==
    LET E == [D EXCEPT !.links = @ (+) RowsBag(noteId, contextIds, D.clock)]
    IN  IF D.err = "ok" /\ D.w + 1 # D.fail /\ ~LinkPkOk(E.links)
        THEN [D EXCEPT !.w = @ + 1, !.err = "ConstraintViolation"]
        ELSE Stmt(D, E)

\* Variant: the new links are added to the old ones.
linkNoteToContexts_keepOld(D, noteId, contextIds) ==
    IF Len(contextIds) = 0
    THEN D
    ELSE InsertLinks(D, noteId, contextIds)

linkNoteToContexts(D, noteId, contextIds) ==
    IF Len(contextIds) = 0
    THEN D
    ELSE InsertLinks(DeleteLinksOfNote(D, noteId), noteId, contextIds)

(***************************************************************************)
(* createNote                                                              *)
(***************************************************************************)
\* A string is the sequence of its characters.  JSON.stringify of a string
\* puts it in double quotes and escapes the double quotes and backslashes
\* in it.
EscapeChar(c) == IF c \in {"\"", "\\"} THEN <<"\\", c>> ELSE <<c>>

RECURSIVE Concat(_)
Concat(ss) == IF ss = <<>> THEN <<>> ELSE Head(ss) \o Concat(Tail(ss))

QuoteString(t) ==
    <<"\"">> \o Concat([i \in DOMAIN t |-> EscapeChar(t[i])]) \o <<"\"">>

\* JSON.stringify of an array of strings: ["a","b"].
JSONstringify(tags) ==
    <<"[">>
    \o Concat([i \in DOMAIN tags |->
                  IF i = 1 THEN QuoteString(tags[i])
                           ELSE <<",">> \o QuoteString(tags[i])])
    \o <<"]">>

\* The row of a new note: tags are stored as JSON text or NULL (the empty
\* text stands for NULL), created_at and updated_at get the table's
\* defaults.
noteToInsert(D, p) ==
    [NoteRow(p.content, p.key_context) EXCEPT
        !.tags = IF p.hasTags THEN JSONstringify(p.tags) ELSE <<>>,
        !.created_at = D.clock,
        !.updated_at = D.clock]

\* catch (error) { throw new Error(`Failed to ...`) }
Catch(D, e) == IF D.err # "ok" THEN [D EXCEPT !.err = e] ELSE D

\* INSERT INTO notes ... RETURNING; notes.id is the table's primary key.
InsertNote(D, p) ==
    IF D.err = "ok" /\ D.w + 1 # D.fail /\ D.notes[p.id].present
    THEN [D EXCEPT !.w = @ + 1, !.err = "ConstraintViolation"]
    ELSE Stmt(D, [D EXCEPT !.notes[p.id] = noteToInsert(D, p)])

\* Variant: a failure after the insert takes the note row back.
createNote_rollback(D, p) ==
    LET D1 == InsertNote(D, p)
        U  == upsertContexts(D1, p.contexts)
        D2 == IF Len(p.contexts) > 0
              THEN linkNoteToContexts(U.db, p.id, U.ids)
              ELSE D1
        D3 == Catch(Read(D2), "CreateFailed")
    IN  IF D3.err # "ok" THEN [D3 EXCEPT !.notes = D.notes] ELSE D3

createNote(D, p) ==
    LET D1 == InsertNote(D, p)
        U  == upsertContexts(D1, p.contexts)
        D2 == IF Len(p.contexts) > 0
              THEN linkNoteToContexts(U.db, p.id, U.ids)
              ELSE D1
    IN  Catch(Read(D2), "CreateFailed")

(***************************************************************************)
(* updateNote                                                              *)
(***************************************************************************)
Truthy(v) == v \notin {Undef, Null}

\* The column changes of a patch (the keys of updateData): every defined
\* field other than contexts and embedding; the embedding key contributes
\* the patch's embedding_model when that is truthy.
updateData(p) ==
    (IF p.hasContent THEN {"content"} ELSE {})
    \cup (IF p.hasKeyContext THEN {"key_context"} ELSE {})
    \cup (IF p.embedding_model # Undef
             \/ (p.embedding # Undef /\ Truthy(p.embedding_model))
          THEN {"embedding_model"} ELSE {})
    \cup (IF p.hasCreatedAt THEN {"created_at"} ELSE {})
    \cup (IF p.hasUpdatedAt THEN {"updated_at"} ELSE {})

hasDataToUpdate(p) == updateData(p) # {}

hasContextsToUpdate(p) == p.hasContexts

\* UPDATE notes SET updateData WHERE id = noteId RETURNING
UpdateNoteRow(D, noteId, p) ==
    LET D1 == Stmt(D, [D EXCEPT
                  !.notes[noteId].content =
                      IF D.notes[noteId].present /\ p.hasContent
                      THEN p.content ELSE @,
                  !.notes[noteId].key_context =
                      IF D.notes[noteId].present /\ p.hasKeyContext
                      THEN p.key_context ELSE @,
                  !.notes[noteId].embedding_model =
                      IF D.notes[noteId].present
                         /\ "embedding_model" \in updateData(p)
                      THEN p.embedding_model ELSE @,
                  !.notes[noteId].created_at =
                      IF D.notes[noteId].present
                         /\ "created_at" \in updateData(p)
                      THEN p.created_at ELSE @,
                  !.notes[noteId].updated_at =
                      IF D.notes[noteId].present
                         /\ "updated_at" \in updateData(p)
                      THEN p.updated_at ELSE @])
    IN  IF D.notes[noteId].present THEN D1 ELSE Throw(D1, "NotFound")

\* Variant: an empty result is not checked.
SelectNoteRow_noCheck(D, noteId) == Read(D)

\* SELECT FROM notes WHERE id = noteId
SelectNoteRow(D, noteId) ==
    LET D1 == Read(D)
    IN  IF D.notes[noteId].present THEN D1 ELSE Throw(D1, "NotFound")

\* Variant: a patch without contexts clears the links.
RelinkOnUpdate_clear(D, noteId, p) ==
    IF hasContextsToUpdate(p)
    THEN LET U == upsertContexts(D, p.contexts)
         IN  linkNoteToContexts(U.db, noteId, U.ids)
    ELSE DeleteLinksOfNote(D, noteId)

RelinkOnUpdate(D, noteId, p) ==
    IF hasContextsToUpdate(p)
    THEN LET U == upsertContexts(D, p.contexts)
         IN  linkNoteToContexts(U.db, noteId, U.ids)
    ELSE D

\* UPDATE notes SET embedding, embedding_model, embedding_created_at
\*     WHERE id = noteId
upsertEmbedding(D, noteId, embedding, embeddingModel) ==
    Stmt(D, [D EXCEPT !.notes[noteId] =
                IF @.present
                THEN [@ EXCEPT !.embedding = embedding,
                               !.embedding_model = embeddingModel]
                ELSE @])

\* The embedding of a patch is stored by upsertEmbedding, under the patch's
\* embedding_model or "unknown".
EmbeddingOnUpdate(D, noteId, p) ==
    IF p.embedding # Undef
    THEN upsertEmbedding(D, noteId, p.embedding,
             IF Truthy(p.embedding_model) THEN p.embedding_model
             ELSE "unknown")
    ELSE D

updateNote(D, noteId, p) ==
    IF ~hasDataToUpdate(p) /\ ~hasContextsToUpdate(p)
    THEN Throw(D, "NoUpdateFields")
    ELSE LET D1 == IF hasDataToUpdate(p)
                   THEN UpdateNoteRow(D, noteId, p)
                   ELSE SelectNoteRow(D, noteId)
         IN  Read(EmbeddingOnUpdate(RelinkOnUpdate(D1, noteId, p), noteId, p))

(***************************************************************************)
(* deleteNote                                                              *)
(***************************************************************************)
\* UPDATE notes SET embedding = NULL, embedding_model = NULL, ... inside
\* its own try/catch: an error of this statement is logged and swallowed.
ClearEmbedding(D, noteId) ==
    IF D.err # "ok" THEN D
    ELSE IF D.w + 1 = D.fail
         THEN IF D.crash
              THEN [D EXCEPT !.w = @ + 1, !.err = Stopped(D)]
              ELSE [D EXCEPT !.w = @ + 1]
         ELSE [D EXCEPT !.w = @ + 1,
                        !.notes[noteId] =
                            IF @.present
                            THEN [@ EXCEPT !.embedding = Null,
                                           !.embedding_model = Null]
                            ELSE @]

\* Variant: the statement deletes no row.
DeleteNoteRow_keep(D, noteId) == Stmt(D, D)

DeleteNoteRow(D, noteId) ==
    Stmt(D, [D EXCEPT !.notes[noteId] = NoNote])

\* Variant: the row is deleted first and the links last.
deleteNote_rowFirst(D, noteId) ==
    DeleteLinksOfNote(ClearEmbedding(DeleteNoteRow(D, noteId), noteId), noteId)

deleteNote(D, noteId) ==
    DeleteNoteRow(ClearEmbedding(DeleteLinksOfNote(D, noteId), noteId), noteId)

(***************************************************************************)
(* fetchNotes                                                              *)
(***************************************************************************)
\* EXISTS (SELECT 1 FROM notes_contexts nc JOIN contexts c
\*         ON nc.context_id = c.id WHERE nc.note_id = id AND c.name = name)
ExistsLinkTo(L, C, noteId, name) ==
    \E r \in DOMAIN L, c \in C :
        r.note_id = noteId /\ r.context_id = c.id /\ c.name = name

\* Variant: the conditions are disjoined unless the method is "OR".
contextsCondition_swapped(L, C, noteId, names, method) ==
    IF method = "OR"
    THEN \A i \in DOMAIN names : ExistsLinkTo(L, C, noteId, names[i])
    ELSE \E i \in DOMAIN names : ExistsLinkTo(L, C, noteId, names[i])

\* params.method === "OR" ? or(...contextConditions)
\*                         : and(...contextConditions)
contextsCondition(L, C, noteId, names, method) ==
    IF method = "OR"
    THEN \E i \in DOMAIN names : ExistsLinkTo(L, C, noteId, names[i])
    ELSE \A i \in DOMAIN names : ExistsLinkTo(L, C, noteId, names[i])

\* The ids of the rows that fetchNotes selects.
fetchNotes(N, L, C, params) ==
    {n \in DOMAIN N :
        /\ N[n].present
        /\ Truthy(params.keyContext) => N[n].key_context = params.keyContext
        /\ Len(params.contexts) > 0
              => contextsCondition(L, C, n, params.contexts, params.method)}

(***************************************************************************)
(* filterNotes                                                             *)
(***************************************************************************)
\* LIKE folds the case of ASCII letters.
Lower(c) == IF c = "A" THEN "a" ELSE IF c = "B" THEN "b" ELSE c

\* text LIKE pat, without ESCAPE: % matches any run of characters, _ any
\* one character, every other character itself up to case.
RECURSIVE Like(_, _)
Like(text, pat) ==
    IF pat = <<>> THEN text = <<>>
    ELSE IF Head(pat) = "%"
         THEN \/ Like(text, Tail(pat))
              \/ text # <<>> /\ Like(Tail(text), pat)
    ELSE IF text = <<>> THEN FALSE
    ELSE IF Head(pat) = "_" THEN Like(Tail(text), Tail(pat))
    ELSE Lower(Head(text)) = Lower(Head(pat)) /\ Like(Tail(text), Tail(pat))

\* json_extract(tags, '$') LIKE '%"' || tag || '"%'
\* json_extract yields the stored array as minified JSON text, which is the
\* text JSON.stringify wrote; NULL for NULL, and NULL LIKE ... selects
\* nothing.
tagCondition(row, tag) ==
    /\ row.tags # <<>>
    /\ Like(row.tags, <<"%", "\"">> \o tag \o <<"\"", "%">>)

\* The conjunction of the conditions buildFilterConditions pushes, on the
\* note noteId.
buildFilterConditions(N, L, C, noteId, filters) ==
    /\ filters.hasCreatedAfter
          => N[noteId].created_at >= filters.createdAfter
    /\ filters.hasCreatedBefore
          => N[noteId].created_at <= filters.createdBefore
    /\ Len(filters.contexts) > 0
          => \A i \in DOMAIN filters.contexts :
                 ExistsLinkTo(L, C, noteId, filters.contexts[i])
    /\ Len(filters.hashtags) > 0
          => \E i \in DOMAIN filters.hashtags :
                 tagCondition(N[noteId], filters.hashtags[i])

\* JSON.parse of the text JSON.stringify wrote for one of the arrays in
\* Arrays; the tags of a row without tags are [].
JSONparse(text, Arrays) ==
    IF text = <<>> THEN <<>>
    ELSE CHOOSE T \in Arrays : JSONstringify(T) = text

\* SELECT ... WHERE whereCondition
selectWhere(N, L, C, filters) ==
    {n \in DOMAIN N :
        N[n].present /\ buildFilterConditions(N, L, C, n, filters)}

Min(a, b) == IF a <= b THEN a ELSE b

\* Math.min(filters.limit || 20, 50): undefined and 0 are falsy.
effectiveLimit(filters) ==
    Min(IF filters.hasLimit /\ filters.limit # 0 THEN filters.limit ELSE 20,
        50)

\* ORDER BY created_at DESC: the orders the store may return the rows S in
\* (rows with equal created_at in any order).
orderByCreatedAtDesc(N, S) ==
    {s \in [1..Cardinality(S) -> S] :
        /\ Range(s) = S
        /\ \A i, j \in DOMAIN s :
              i < j => N[s[i]].created_at >= N[s[j]].created_at}

\* LIMIT n: the first n rows; a negative n is no limit.
sqlLimit(rows, n) ==
    IF n < 0 THEN rows ELSE SubSeq(rows, 1, Min(n, Len(rows)))

(***************************************************************************)
(* calculateCosineSimilarity                                               *)
(***************************************************************************)
\* Numbers are IEEE doubles.  Of their finite range the model keeps two
\* scales: [m, tiny |-> FALSE] is the integer m, and [m, tiny |-> TRUE] is
\* m * 2^-600, a non-zero number whose square is below the smallest double.
Num(m) == [m |-> m, tiny |-> FALSE]

TinyNum(m) == [m |-> m, tiny |-> m # 0]

\* x * y: the product of two tiny numbers underflows to 0.
mul(x, y) ==
    IF x.m = 0 \/ y.m = 0 \/ (x.tiny /\ y.tiny) THEN Num(0)
    ELSE [m |-> x.m * y.m, tiny |-> x.tiny \/ y.tiny]

\* x + y: a tiny number added to a non-zero integer is rounded away.
add(x, y) ==
    IF x.m = 0 THEN y
    ELSE IF y.m = 0 THEN x
    ELSE IF x.tiny = y.tiny
         THEN IF x.m + y.m = 0 THEN Num(0)
              ELSE [m |-> x.m + y.m, tiny |-> x.tiny]
    ELSE IF x.tiny THEN y ELSE x

\* A similarity is kept exact: [tiny, num, den2] stands for
\* num / sqrt(den2), times 2^-600 when tiny, with den2 > 0.  The rounding
\* of the square roots and of the division is not modelled.
SimZero == [tiny |-> FALSE, num |-> 0, den2 |-> 1]
SimOne == [tiny |-> FALSE, num |-> 1, den2 |-> 1]
SimHalf == [tiny |-> FALSE, num |-> 1, den2 |-> 4]

\* num / sqrt(den2) of s is at least that of t.
RatioGeq(s, t) ==
    IF s.num >= 0 /\ t.num < 0 THEN TRUE
    ELSE IF s.num < 0 /\ t.num >= 0 THEN FALSE
    ELSE IF s.num >= 0
         THEN s.num * s.num * t.den2 >= t.num * t.num * s.den2
         ELSE s.num * s.num * t.den2 <= t.num * t.num * s.den2

\* s >= t, as numbers.
SimGeq(s, t) ==
    IF s.tiny = t.tiny THEN RatioGeq(s, t)
    ELSE IF s.tiny THEN t.num < 0 \/ (t.num = 0 /\ s.num > 0)
    ELSE s.num > 0 \/ (s.num = 0 /\ t.num < 0)

SimEq(s, t) == SimGeq(s, t) /\ SimGeq(t, s)

\* for (let i = 0; i < a.length; i++) dotProduct += a[i] * b[i]
RECURSIVE dotProductFrom(_, _, _, _)
dotProductFrom(a, b, i, acc) ==
    IF i > Len(a) THEN acc
    ELSE dotProductFrom(a, b, i + 1, add(acc, mul(a[i], b[i])))

dotProduct(a, b) == dotProductFrom(a, b, 1, Num(0))

\* Variant: vectors of different lengths have similarity 0.
calculateCosineSimilarity_lenient(a, b) ==
    IF Len(a) # Len(b) THEN [err |-> "ok", sim |-> SimZero]
    ELSE IF dotProduct(a, a).m = 0 \/ dotProduct(b, b).m = 0
         THEN [err |-> "ok", sim |-> SimZero]
    ELSE [err |-> "ok",
          sim |-> [tiny |-> dotProduct(a, b).tiny,
                   num |-> dotProduct(a, b).m,
                   den2 |-> dotProduct(a, a).m * dotProduct(b, b).m]]

\* normA = sqrt(sum a[i]^2), normB = sqrt(sum b[i]^2); the result is
\* dotProduct / (normA * normB), or 0 when a norm is 0; vectors of
\* different lengths throw.
calculateCosineSimilarity(a, b) ==
    IF Len(a) # Len(b) THEN [err |-> "DimensionMismatch", sim |-> SimZero]
    ELSE IF dotProduct(a, a).m = 0 \/ dotProduct(b, b).m = 0
         THEN [err |-> "ok", sim |-> SimZero]
    ELSE [err |-> "ok",
          sim |-> [tiny |-> dotProduct(a, b).tiny,
                   num |-> dotProduct(a, b).m,
                   den2 |-> dotProduct(a, a).m * dotProduct(b, b).m]]

(***************************************************************************)
(* executeSemanticSearch                                                   *)
(***************************************************************************)
\* The stored embedding texts of the model and the vectors they are the
\* JSON of: "e1" is [1,0], "e2" is [0,1], "e3" is [1,1], "short" is [1];
\* "bad" is a text that is not JSON.
storedEmbedding(text) ==
    IF text = "e1" THEN <<Num(1), Num(0)>>
    ELSE IF text = "e2" THEN <<Num(0), Num(1)>>
    ELSE IF text = "e3" THEN <<Num(1), Num(1)>>
    ELSE <<Num(1)>>

\* JSON.parse(row.embedding)
parseEmbedding(text) ==
    IF text = "bad" THEN [err |-> "SyntaxError", vec |-> <<>>]
    ELSE [err |-> "ok", vec |-> storedEmbedding(text)]

\* Variant: an error of the parse or of the similarity is not caught.
scoreRow_noCatch(embedding, text) ==
    IF parseEmbedding(text).err # "ok"
    THEN [err |-> parseEmbedding(text).err, sim |-> SimZero]
    ELSE calculateCosineSimilarity(embedding, parseEmbedding(text).vec)

\* try { JSON.parse; calculateCosineSimilarity } catch { similarity: 0 }
scoreRow(embedding, text) ==
    IF parseEmbedding(text).err # "ok"
    THEN [err |-> "ok", sim |-> SimZero]
    ELSE IF calculateCosineSimilarity(
                embedding, parseEmbedding(text).vec).err # "ok"
         THEN [err |-> "ok", sim |-> SimZero]
    ELSE calculateCosineSimilarity(embedding, parseEmbedding(text).vec)

\* Variant: the items stay in the order they are in.
sortBySimilarityDesc_none(items) == items

\* items.sort((a, b) => b.similarity - a.similarity): the sort is stable.
RECURSIVE InsertBySimilarity(_, _)
InsertBySimilarity(x, sorted) ==
    IF sorted = <<>> THEN <<x>>
    ELSE IF SimGeq(x.similarity, Head(sorted).similarity)
         THEN <<x>> \o sorted
    ELSE <<Head(sorted)>> \o InsertBySimilarity(x, Tail(sorted))

RECURSIVE sortBySimilarityDesc(_)
sortBySimilarityDesc(items) ==
    IF items = <<>> THEN <<>>
    ELSE InsertBySimilarity(Head(items), sortBySimilarityDesc(Tail(items)))

Max(a, b) == IF a >= b THEN a ELSE b

\* items.slice(0, n): a negative n counts from the end.
slice(items, n) ==
    SubSeq(items, 1, IF n >= 0 THEN Min(n, Len(items))
                               ELSE Max(0, Len(items) + n))

\* The orders a query without ORDER BY may return the rows S in.
anyOrder(S) == {s \in [1..Cardinality(S) -> S] : Range(s) = S}

\* executeSemanticSearch, the scan returning the rows in the order scan and
\* the second query in the order fetch.
executeSemanticSearch(N, embedding, similarityThreshold, limit, scan, fetch) ==
    LET scored == [i \in DOMAIN scan |->
                      scoreRow(embedding, N[scan[i]].embedding)]
        items  == [i \in DOMAIN scan |->
                      [id |-> scan[i], similarity |-> scored[i].sim]]
        similarities ==
            slice(sortBySimilarityDesc(
                      SelectSeq(items,
                          LAMBDA x : SimGeq(x.similarity,
                                            similarityThreshold))),
                  limit)
        noteIds == {similarities[i].id : i \in DOMAIN similarities}
        notesData == SelectSeq(fetch, LAMBDA n : n \in noteIds)
        rawResults ==
            [i \in DOMAIN notesData |->
                LET found == {j \in DOMAIN similarities :
                                 similarities[j].id = notesData[i]}
                IN  [id |-> notesData[i],
                     similarity |-> IF found = {} THEN SimZero
                                    ELSE similarities[CHOOSE j \in found :
                                             TRUE].similarity]]
    IN  IF \E i \in DOMAIN scored : scored[i].err # "ok"
        THEN [err |-> "Database query failed", rows |-> <<>>]
        ELSE [err |-> "ok", rows |-> sortBySimilarityDesc(rawResults)]

(***************************************************************************)
(* searchNotesBySimilarity                                                 *)
(***************************************************************************)
\* query.trim(): the string without its leading and trailing blanks.
RECURSIVE trimStart(_)
trimStart(text) ==
    IF text # <<>> /\ Head(text) = " " THEN trimStart(Tail(text)) ELSE text

RECURSIVE trimEnd(_)
trimEnd(text) ==
    IF text # <<>> /\ text[Len(text)] = " "
    THEN trimEnd(SubSeq(text, 1, Len(text) - 1))
    ELSE text

trim(text) == trimEnd(trimStart(text))

\* Variant: the limit is tested before the threshold.
searchNotesBySimilarity_limitFirst(params) ==
    LET similarityThreshold ==
            IF params.hasThreshold THEN params.threshold ELSE 70
        limit == IF params.hasMax THEN params.max ELSE 10
    IN  IF ~params.hasQuery \/ Len(trim(params.query)) = 0
        THEN "QueryRequired"
        ELSE IF limit <= 0 \/ limit > 1000
        THEN "LimitOutOfRange"
        ELSE IF similarityThreshold < 0 \/ similarityThreshold > 100
        THEN "ThresholdOutOfRange"
        ELSE "EmbeddingRequired"

\* The error searchNotesBySimilarity throws.  Thresholds are in hundredths;
\* the defaults of the destructuring are 0.7 and 10.  No statement touches
\* the store.
searchNotesBySimilarity(params) ==
    LET similarityThreshold ==
            IF params.hasThreshold THEN params.threshold ELSE 70
        limit == IF params.hasMax THEN params.max ELSE 10
    IN  IF ~params.hasQuery \/ Len(trim(params.query)) = 0
        THEN "QueryRequired"
        ELSE IF similarityThreshold < 0 \/ similarityThreshold > 100
        THEN "ThresholdOutOfRange"
        ELSE IF limit <= 0 \/ limit > 1000
        THEN "LimitOutOfRange"
        ELSE "EmbeddingRequired"

(***************************************************************************)
(* contextExists                                                           *)
(***************************************************************************)
\* Variant: the error of the query is thrown on.
contextExists_rethrow(D, name) ==
    [db |-> Read(D),
     value |-> Read(D).err = "ok" /\ ContextByName(D, name) # {}]

\* SELECT count(*) FROM contexts WHERE name = name, in a try whose catch
\* returns false.
contextExists(D, name) ==
    [db |-> [Read(D) EXCEPT !.err = "ok"],
     value |-> Read(D).err = "ok" /\ ContextByName(D, name) # {}]

(***************************************************************************)
(* fetchContextStatsPaginated                                               *)
(***************************************************************************)
\* FROM contexts c JOIN notes_contexts nc ON c.id = nc.context_id, the
\* link rows joined to the context named name.
LinksOfName(L, C, name) ==
    BagFilter(L, LAMBDA r : \E c \in C : c.id = r.context_id /\ c.name = name)

\* SELECT COUNT(DISTINCT c2.name) FROM contexts c2 JOIN notes_contexts nc2
\*     ON c2.id = nc2.context_id: the names of the contexts with a link.
linkedNames(L, C) ==
    {c.name : c \in {x \in C : \E r \in DOMAIN L : r.context_id = x.id}}

RECURSIVE MaxOf(_)
MaxOf(S) ==
    LET x == CHOOSE y \in S : TRUE
    IN  IF S = {x} THEN x ELSE Max(x, MaxOf(S \ {x}))

\* GROUP BY c.name: COUNT(*) and MAX(nc.created_at) of one name.
statsRow(L, C, name) ==
    [context |-> name,
     count |-> BagCardinality(LinksOfName(L, C, name)),
     lastUsed |-> MaxOf({r.created_at : r \in DOMAIN LinksOfName(L, C, name)})]

\* ORDER BY lastUsed DESC, count DESC: the orders the store may return
\* the groups in (groups equal in both in any order).
orderByLastUsedDesc(S) ==
    {s \in [1..Cardinality(S) -> S] :
        /\ Range(s) = S
        /\ \A i, j \in DOMAIN s :
              i < j => \/ s[i].lastUsed > s[j].lastUsed
                       \/ /\ s[i].lastUsed = s[j].lastUsed
                          /\ s[i].count >= s[j].count}

\* OFFSET n: the rows after the first n; a negative n is 0.
sqlOffset(rows, n) ==
    IF n <= 0 THEN rows ELSE SubSeq(rows, Min(n, Len(rows)) + 1, Len(rows))

\* results.length > 0 ? results[0].total_count : 0
statsTotalCount(results, total_count) ==
    IF Len(results) > 0 THEN total_count ELSE 0

\* fetchContextStatsPaginated, the store returning the groups in the order
\* ordered.  params.limit || 30 and params.offset || 0: undefined and 0
\* are falsy.
fetchContextStatsPaginated(L, C, params, ordered) ==
    LET limit == IF params.hasLimit /\ params.limit # 0
                 THEN params.limit ELSE 30
        offset == IF params.hasOffset /\ params.offset # 0
                  THEN params.offset ELSE 0
        results == sqlLimit(sqlOffset(ordered, offset), limit)
        totalCount == statsTotalCount(results, Cardinality(linkedNames(L, C)))
    IN  [contexts |-> [i \in DOMAIN results |-> results[i].context],
         totalCount |-> totalCount,
         hasMore |-> offset + limit < totalCount]

(***************************************************************************)
(* renameContext                                                           *)
(***************************************************************************)
\* slugToSentenceCase, on the names of the model.
slugToSentenceCase(name) ==
    CASE name = "work" -> "Work"
      [] name = "urgent" -> "Urgent"
      [] name = "home" -> "Home"
      [] OTHER -> name

\* Case folding of the "i" flag of the regular expression.
LowerCase(seg) ==
    CASE seg = "Work" -> "work"
      [] seg = "WORK" -> "work"
      [] seg = "Urgent" -> "urgent"
      [] seg = "Home" -> "home"
      [] OTHER -> seg

\* note.content.replace(regex, `[[${newNameSentenceCase}]]`)
RewriteContent(content, oldName, newName) ==
    [i \in DOMAIN content |->
        IF content[i] # "txt"
           /\ LowerCase(content[i]) = LowerCase(slugToSentenceCase(oldName))
        THEN slugToSentenceCase(newName)
        ELSE content[i]]

updatedKeyContext(note, oldName, newName) ==
    IF note.key_context = oldName THEN newName ELSE note.key_context

\* Variant: the UPDATE is issued for every note of the loop.
RewriteNote_always(D, noteId, oldName, newName) ==
    LET note == D.notes[noteId]
    IN  Stmt(D, [D EXCEPT
            !.notes[noteId].content =
                RewriteContent(note.content, oldName, newName),
            !.notes[noteId].key_context =
                updatedKeyContext(note, oldName, newName),
            !.upd = @ \cup {noteId}])

\* The body of the loop over notesToUpdate, for one note.
RewriteNote(D, noteId, oldName, newName) ==
    LET note == D.notes[noteId]
        updatedContent == RewriteContent(note.content, oldName, newName)
        updatedKey == updatedKeyContext(note, oldName, newName)
    IN  IF updatedContent # note.content \/ updatedKey # note.key_context
        THEN Stmt(D, [D EXCEPT !.notes[noteId].content = updatedContent,
                               !.notes[noteId].key_context = updatedKey,
                               !.upd = @ \cup {noteId}])
        ELSE D

\* The loop over notesToUpdate; the rows come in the order the store
\* returns them, here the order CHOOSE fixes.
RECURSIVE RewriteNotes(_, _, _, _)
RewriteNotes(D, noteIds, oldName, newName) ==
    IF noteIds = {} \/ D.err # "ok" THEN D
    ELSE LET n == CHOOSE x \in noteIds : TRUE
         IN  RewriteNotes(RewriteNote(D, n, oldName, newName),
                          noteIds \ {n}, oldName, newName)

\* SELECT FROM notes WHERE id IN noteIds
notesToUpdate(D, noteIds) == {n \in noteIds : D.notes[n].present}

\* Note ids of the links of a context.
LinkedNoteIds(D, contextId) ==
    {r.note_id : r \in {x \in DOMAIN D.links : x.context_id = contextId}}

\* The partition of the old context's links.
\* Variant: every link of the old context is taken for a duplicate.
noteIdsToDelete_all(D, oldContextId, newContextId) ==
    LinkedNoteIds(D, oldContextId)

noteIdsToDelete(D, oldContextId, newContextId) ==
    {n \in LinkedNoteIds(D, oldContextId) :
        n \in LinkedNoteIds(D, newContextId)}

noteIdsToUpdate(D, oldContextId, newContextId) ==
    {n \in LinkedNoteIds(D, oldContextId) :
        n \notin LinkedNoteIds(D, newContextId)}

\* DELETE FROM notes_contexts WHERE note_id IN ids AND context_id = old
DeleteDuplicateLinks(D, ids, oldContextId) ==
    IF ids = {} THEN D
    ELSE Stmt(D, [D EXCEPT !.links = BagFilter(@,
             LAMBDA r : ~(r.note_id \in ids /\ r.context_id = oldContextId))])

\* Variant: the links are deleted and inserted again, stamped now.
RepointLinks_restamp(D, ids, oldContextId, newContextId) ==
    LET hit(r) == r.note_id \in ids /\ r.context_id = oldContextId
        kept == BagFilter(D.links, LAMBDA r : ~hit(r))
        moved == SetToBag({LinkRow(x.note_id, newContextId, D.clock) :
                              x \in {y \in DOMAIN D.links : hit(y)}})
    IN  IF ids = {} THEN D
        ELSE Stmt(D, [D EXCEPT !.links = kept (+) moved])

\* UPDATE notes_contexts SET context_id = new
\*     WHERE note_id IN ids AND context_id = old
\* Variant: the links stay on the old context.
RepointLinks_skip(D, ids, oldContextId, newContextId) == Stmt(D, D)

RepointLinks(D, ids, oldContextId, newContextId) ==
    LET hit(r) == r.note_id \in ids /\ r.context_id = oldContextId
        kept == BagFilter(D.links, LAMBDA r : ~hit(r))
        moved == [r \in {LinkRow(x.note_id, newContextId, x.created_at) :
                            x \in {y \in DOMAIN D.links : hit(y)}} |->
                     D.links[LinkRow(r.note_id, oldContextId, r.created_at)]]
        E == [D EXCEPT !.links = kept (+) moved]
    IN  IF ids = {} THEN D
        ELSE IF D.err = "ok" /\ D.w + 1 # D.fail /\ ~LinkPkOk(E.links)
             THEN [D EXCEPT !.w = @ + 1, !.err = "ConstraintViolation"]
             ELSE Stmt(D, E)

\* Variant: the old context row is kept.
DeleteContextRow_skip(D, oldContextId) == Stmt(D, D)

\* DELETE FROM contexts WHERE id = oldContextId
DeleteContextRow(D, oldContextId) ==
    Stmt(D, [D EXCEPT !.contexts = {c \in @ : c.id # oldContextId}])

\* Variant: the statement changes no row.
RenameContextRow_noop(D, oldContextId, newName) == Stmt(D, D)

\* UPDATE contexts SET name = newName WHERE id = oldContextId
RenameContextRow(D, oldContextId, newName) ==
    LET E == [D EXCEPT !.contexts =
                 {IF c.id = oldContextId THEN ContextRow(c.id, newName) ELSE c
                    : c \in @}]
    IN  IF D.err = "ok" /\ D.w + 1 # D.fail /\ ~ContextNameOk(E.contexts)
        THEN [D EXCEPT !.w = @ + 1, !.err = "ConstraintViolation"]
        ELSE Stmt(D, E)

mergeBranch(D, oldName, newName, oldContextId, newContextId) ==
    LET noteIds == LinkedNoteIds(D, oldContextId)
        D1 == DeleteDuplicateLinks(D,
                  noteIdsToDelete(D, oldContextId, newContextId), oldContextId)
        D2 == RepointLinks(D1,
                  noteIdsToUpdate(D, oldContextId, newContextId),
                  oldContextId, newContextId)
        D3 == RewriteNotes(D2, notesToUpdate(D2, noteIds), oldName, newName)
    IN  DeleteContextRow(IF noteIds # {} THEN D3 ELSE D, oldContextId)

renameBranch(D, oldName, newName, oldContextId) ==
    LET D1 == RenameContextRow(D, oldContextId, newName)
        noteIds == LinkedNoteIds(D1, oldContextId)
    IN  IF noteIds # {}
        THEN RewriteNotes(D1, notesToUpdate(D1, noteIds), oldName, newName)
        ELSE D1

\* Variant: the error is rethrown without ROLLBACK.
Rollback_none(S, D) == D

\* ROLLBACK: the tables are again as they were at BEGIN.
Rollback(S, D) ==
    [D EXCEPT !.notes = S.notes, !.contexts = S.contexts, !.links = S.links]

\* Variant: a missing source context is reported as a missing note.
CheckOldContext_wrong(D, oldName) ==
    IF ContextByName(D, oldName) = {} THEN Throw(D, "NotFound") ELSE D

\* The check of oldContextParams: the source context must exist.
CheckOldContext(D, oldName) ==
    IF ContextByName(D, oldName) = {} THEN Throw(D, "ContextNotFound") ELSE D

renameContext(D, oldName, newName) ==
    LET D1 == CheckOldContext(Read(D), oldName)
        D2 == IF D1.err # "ok" THEN D1
              ELSE IF ContextByName(D, newName) # {}
                   THEN mergeBranch(D1, oldName, newName,
                            ContextId(D, oldName), ContextId(D, newName))
                   ELSE renameBranch(D1, oldName, newName,
                            ContextId(D, oldName))
    IN  IF D2.err # "ok" THEN Rollback(D, D2) ELSE D2

(***************************************************************************)
(* The state machine: one action per adapter operation.                    *)
(***************************************************************************)
\* The database a handler starts from, with the store failing on
\* statement fail (0: never).
Start(fail) ==
    [notes |-> notes, contexts |-> contexts, links |-> links,
     nextId |-> nextId, clock |-> clock, upd |-> {},
     w |-> 0, fail |-> fail, crash |-> FALSE, err |-> "ok"]

\* The same, with the process interrupted before statement fail.
StartInterrupted(fail) == [Start(fail) EXCEPT !.crash = TRUE]

\* last: the operation that led to the current state, its arguments, the
\* contexts and links tables it started from, and the error it threw
\* ("ok": it returned); of a renameContext also the number of statements
\* it ran and the notes whose row it updated; of an upsertContexts its list
\* of names, the ids it returned, and whether the call before it was a
\* successful upsertContexts of the same list; of an updateNote or an
\* upsertEmbedding the embedding and the embedding_model it was given; of
\* an interruptible deleteNote the row the note had; of a fetchNotes its
\* parameters and the ids of the notes it returned; of a filterNotes its
\* filters, the ids of the page, the total count and the applied limit; of
\* a calculateCosineSimilarity its vectors and its result; of an
\* executeSemanticSearch its query vector, threshold and limit and the ids
\* and similarities of the notes it returned; of a searchNotesBySimilarity
\* its parameters; of a contextExists its name, the statement that failed
\* and its value; of a fetchContextStatsPaginated its parameters, the
\* names of its page, its totalCount and its hasMore.
NoFilters ==
    [contexts |-> <<>>,
     hasCreatedAfter |-> FALSE, createdAfter |-> 0,
     hasCreatedBefore |-> FALSE, createdBefore |-> 0,
     hashtags |-> <<>>,
     hasLimit |-> FALSE, limit |-> 0]

NoParams ==
    [hasThreshold |-> FALSE, threshold |-> 0,
     hasMax |-> FALSE, max |-> 0,
     hasQuery |-> FALSE, query |-> <<>>]

NoStatsParams ==
    [hasLimit |-> FALSE, limit |-> 0, hasOffset |-> FALSE, offset |-> 0]

NoOp ==
    [op |-> "none", noteId |-> "none", hasData |-> FALSE,
     hasContexts |-> FALSE, names |-> {}, repeats |-> FALSE,
     oldName |-> "none", newName |-> "none",
     w |-> 0, upd |-> {}, list |-> <<>>, ids |-> <<>>, again |-> FALSE,
     emb |-> Undef, model |-> Undef, preNote |-> NoNote,
     keyContext |-> Undef, method |-> Undef, found |-> {},
     filters |-> NoFilters, page |-> <<>>, totalCount |-> 0, limit |-> 0,
     a |-> <<>>, b |-> <<>>, result |-> [err |-> "ok", sim |-> SimZero],
     embedding |-> <<>>, similarityThreshold |-> SimZero, rows |-> <<>>,
     params |-> NoParams, name |-> "none", exists |-> FALSE,
     stats |-> NoStatsParams, hasMore |-> FALSE,
     pre |-> [contexts |-> {}, links |-> EmptyBag], err |-> "ok"]

Repeats(L) == \E i, j \in DOMAIN L : i # j /\ L[i] = L[j]

\* The lists that name no context twice.
DistinctLists(S) == {L \in NameLists(S) : ~Repeats(L)}

\* The handler returned or threw: the tables are as it left them.
Finish(R, rec) ==
    /\ R.nextId <= MaxCtxIds
    /\ notes' = R.notes
    /\ contexts' = R.contexts
    /\ links' = R.links
    /\ nextId' = R.nextId
    /\ clock' = clock
    /\ UNCHANGED <<calls, txn>>
    /\ last' = [rec EXCEPT !.err = R.err,
                            !.names = IF R.err = "ok" THEN @ ELSE {},
                            !.pre = [contexts |-> contexts, links |-> links]]

Patch(hasContent, hasContexts, L) ==
    [hasContent |-> hasContent, content |-> <<"txt">>,
     hasKeyContext |-> FALSE, key_context |-> Null,
     embedding |-> Undef, embedding_model |-> Undef,
     hasCreatedAt |-> FALSE, created_at |-> 0,
     hasUpdatedAt |-> FALSE, updated_at |-> 0,
     hasContexts |-> hasContexts, contexts |-> L]

\* The embeddings and embedding models of the model.
Embeddings == {"e1", "e2"}

PatchModels == {Undef, Null, "m1"}

(***************************************************************************)
(* Interleaved calls.                                                      *)
(*                                                                         *)
(* A call runs from one awaited statement to the next without             *)
(* interruption: a step executes the statement the call awaits and the    *)
(* code that follows it up to the next await.  The local variables of the *)
(* call keep what earlier statements returned.                             *)
(***************************************************************************)
\* The slots in which calls run.
Procs == {"p1", "p2"}

\* No call: the slot is idle.
NoCall ==
    [noteId |-> "none", i |-> 0, err |-> "ok", w |-> 0, ids |-> <<>>,
     hasContexts |-> FALSE, rows |-> [n \in NoteIds |-> NoNote],
     noteIds |-> {}, oldName |-> "none", newName |-> "none",
     oldContextId |-> 0, newContextId |-> 0,
     op |-> "none", hasData |-> FALSE, list |-> <<>>, pc |-> "idle",
     hasNew |-> FALSE, toDelete |-> {}, toUpdate |-> {}, pending |-> {}]

\* No transaction is open on the connection.
NoTxn ==
    [notes |-> [n \in NoteIds |-> NoNote],
     contexts |-> {}, links |-> EmptyBag, open |-> FALSE]

\* The call returned (err = "ok") or threw.
Done(c, e) == [c EXCEPT !.pc = "done", !.err = e]

\* catch (error) { throw new Error(`Failed to ...`) } of the call's handler.
Wrapped(c, e) == IF c.op = "createNote" THEN "CreateFailed" ELSE e

\* The statement left the database D1: the call goes on as c2, or has
\* thrown the statement's error.
Then(c, D1, c2) ==
    [db |-> D1,
     call |-> IF D1.err # "ok" THEN Done(c, Wrapped(c, D1.err))
              ELSE [c2 EXCEPT !.w = c.w + 1]]

\* Where a call goes once upsertContexts has pushed an id for the names
\* before position i: to the next name, or to linkNoteToContexts, which
\* returns at once when it is given no id.
AfterUpsert(list, i, ids) ==
    IF i <= Len(list) THEN "lookup"
    ELSE IF Len(ids) = 0 THEN "convert" ELSE "deleteLinks"

\* The awaited statements of upsertContexts and linkNoteToContexts, and
\* the reads of convertDbNoteToNote that end createNote and updateNote.
linkStep(c, D) ==
    LET name == c.list[c.i]
    IN  CASE c.pc = "lookup" ->
               IF ContextByName(D, name) # {}
               THEN LET ids == Append(c.ids, ContextId(D, name))
                    IN  Then(c, Read(D),
                             [c EXCEPT !.ids = ids, !.i = @ + 1,
                                 !.pc = AfterUpsert(c.list, c.i + 1, ids)])
               ELSE Then(c, Read(D), [c EXCEPT !.pc = "insertContext"])
          [] c.pc = "insertContext" ->
               LET ids == Append(c.ids, D.nextId)
               IN  Then(c, InsertContext(D, name),
                        [c EXCEPT !.ids = ids, !.i = @ + 1,
                            !.pc = AfterUpsert(c.list, c.i + 1, ids)])
          [] c.pc = "deleteLinks" ->
               Then(c, DeleteLinksOfNote(D, c.noteId),
                    [c EXCEPT !.pc = "insertLinks"])
          [] c.pc = "insertLinks" ->
               Then(c, InsertLinks(D, c.noteId, c.ids),
                    [c EXCEPT !.pc = "convert"])
          [] OTHER ->
               Then(c, Read(D), Done(c, "ok"))

\* createNote: the INSERT of the note row, then the contexts.
createNoteStep(c, D) ==
    IF c.pc = "insertNote"
    THEN Then(c, InsertNote(D, [contexts |-> c.list,
                                content |-> PlainNote.content,
                                key_context |-> PlainNote.key_context,
                                tags |-> <<>>, id |-> c.noteId,
                                hasTags |-> FALSE]),
              [c EXCEPT !.i = 1,
                        !.pc = IF Len(c.list) > 0 THEN "lookup"
                               ELSE "convert"])
    ELSE linkStep(c, D)

\* updateNote: the UPDATE or the SELECT of the note row, then the contexts.
updateNoteStep(c, D) ==
    LET p == Patch(c.hasData, c.hasContexts, c.list)
    IN  IF c.pc = "noteRow"
        THEN IF ~hasDataToUpdate(p) /\ ~hasContextsToUpdate(p)
             THEN [db |-> D, call |-> Done(c, "NoUpdateFields")]
             ELSE Then(c, IF hasDataToUpdate(p)
                          THEN UpdateNoteRow(D, c.noteId, p)
                          ELSE SelectNoteRow(D, c.noteId),
                       [c EXCEPT !.i = 1,
                                 !.pc = IF hasContextsToUpdate(p)
                                        THEN AfterUpsert(c.list, 1, <<>>)
                                        ELSE "convert"])
        ELSE linkStep(c, D)

\* deleteNote: the DELETE of the links, followed at once by the raw
\* UPDATE that clears the embedding; then the DELETE of the row.
deleteNoteStep(c, D) ==
    IF c.pc = "deleteLinks"
    THEN Then(c, ClearEmbedding(DeleteLinksOfNote(D, c.noteId), c.noteId),
              [c EXCEPT !.pc = "deleteRow"])
    ELSE Then(c, DeleteNoteRow(D, c.noteId), Done(c, "ok"))

\* The condition of the loop over notesToUpdate, on the row that was
\* selected.
needsUpdate(note, oldName, newName) ==
    \/ RewriteContent(note.content, oldName, newName) # note.content
    \/ updatedKeyContext(note, oldName, newName) # note.key_context

\* UPDATE notes SET content, key_context WHERE id = noteId, with the values
\* computed from the row that was selected.
RewriteSelectedNote(D, note, noteId, oldName, newName) ==
    Stmt(D, IF D.notes[noteId].present
            THEN [D EXCEPT
                     !.notes[noteId].content =
                         RewriteContent(note.content, oldName, newName),
                     !.notes[noteId].key_context =
                         updatedKeyContext(note, oldName, newName),
                     !.upd = @ \cup {noteId}]
            ELSE D)

\* Where renameContext goes when no note is left to update: the merge
\* deletes the old context, the rename commits.
AfterRewrite(c, pending) ==
    IF pending # {} THEN [c EXCEPT !.pending = pending, !.pc = "rewrite"]
    ELSE IF c.hasNew THEN [c EXCEPT !.pending = {}, !.pc = "deleteContext"]
    ELSE Done([c EXCEPT !.pending = {}], "ok")

\* Where the merge goes after the partition of the old context's links.
AfterPartition(toDelete, toUpdate) ==
    IF toDelete # {} THEN "deleteDuplicates"
    ELSE IF toUpdate # {} THEN "repoint" ELSE "selectNotes"

\* renameContext after BEGIN, one awaited statement at a time.
renameContextStep(c, D) ==
    CASE c.pc = "selectNew" ->
           Then(c, Read(D),
                [c EXCEPT !.hasNew = ContextByName(D, c.newName) # {},
                          !.newContextId =
                              IF ContextByName(D, c.newName) # {}
                              THEN ContextId(D, c.newName) ELSE 0,
                          !.pc = "selectOld"])
      [] c.pc = "selectOld" ->
           Then(c, CheckOldContext(Read(D), c.oldName),
                [c EXCEPT !.oldContextId =
                              IF ContextByName(D, c.oldName) # {}
                              THEN ContextId(D, c.oldName) ELSE 0,
                          !.pc = IF c.hasNew THEN "oldLinks"
                                 ELSE "renameRow"])
      [] c.pc = "oldLinks" ->
           LET noteIds == LinkedNoteIds(D, c.oldContextId)
           IN  Then(c, Read(D),
                    [c EXCEPT !.noteIds = noteIds,
                              !.pc = IF noteIds # {} THEN "newLinks"
                                     ELSE "deleteContext"])
      [] c.pc = "newLinks" ->
           LET toDelete == c.noteIds \cap LinkedNoteIds(D, c.newContextId)
               toUpdate == c.noteIds \ LinkedNoteIds(D, c.newContextId)
           IN  Then(c, Read(D),
                    [c EXCEPT !.toDelete = toDelete, !.toUpdate = toUpdate,
                              !.pc = AfterPartition(toDelete, toUpdate)])
      [] c.pc = "deleteDuplicates" ->
           Then(c, DeleteDuplicateLinks(D, c.toDelete, c.oldContextId),
                [c EXCEPT !.pc = AfterPartition({}, c.toUpdate)])
      [] c.pc = "repoint" ->
           Then(c, RepointLinks(D, c.toUpdate, c.oldContextId,
                                c.newContextId),
                [c EXCEPT !.pc = "selectNotes"])
      [] c.pc = "selectNotes" ->
           LET rows == [n \in NoteIds |->
                           IF n \in notesToUpdate(D, c.noteIds)
                           THEN D.notes[n] ELSE NoNote]
           IN  Then(c, Read(D),
                    AfterRewrite([c EXCEPT !.rows = rows],
                        {n \in notesToUpdate(D, c.noteIds) :
                            needsUpdate(rows[n], c.oldName, c.newName)}))
      [] c.pc = "rewrite" ->
           LET n == CHOOSE x \in c.pending : TRUE
           IN  Then(c, RewriteSelectedNote(D, c.rows[n], n,
                                           c.oldName, c.newName),
                    AfterRewrite(c, c.pending \ {n}))
      [] c.pc = "deleteContext" ->
           Then(c, DeleteContextRow(D, c.oldContextId), Done(c, "ok"))
      [] c.pc = "renameRow" ->
           Then(c, RenameContextRow(D, c.oldContextId, c.newName),
                [c EXCEPT !.pc = "linkedNotes"])
      [] OTHER ->
           LET noteIds == LinkedNoteIds(D, c.oldContextId)
           IN  Then(c, Read(D),
                    IF noteIds # {}
                    THEN [c EXCEPT !.noteIds = noteIds, !.pc = "selectNotes"]
                    ELSE Done(c, "ok"))

\* The step of a call in flight.
callStep(c, D) ==
    CASE c.op = "createNote" -> createNoteStep(c, D)
      [] c.op = "updateNote" -> updateNoteStep(c, D)
      [] c.op = "deleteNote" -> deleteNoteStep(c, D)
      [] OTHER -> renameContextStep(c, D)

Init ==
    /\ notes = [n \in NoteIds |-> NoNote]
    /\ contexts = {}
    /\ links = EmptyBag
    /\ nextId = 0
    /\ clock = 0
    /\ last = NoOp
    /\ calls = [p \in Procs |-> NoCall]
    /\ txn = NoTxn

\* The statements on which the store may fail while a handler runs: any of
\* the n statements the handler executes when none fails (0: none fails).
FailPoints(storeFails, n) == IF storeFails THEN 0..n ELSE {0}

CreateNoteWith(Inputs, Lists, storeFails) ==
    \E id \in NoteIds, in \in Inputs, L \in Lists :
        LET p == [id |-> id, content |-> in.content,
                  key_context |-> in.key_context,
                  hasTags |-> FALSE, tags |-> <<>>,
                  contexts |-> L]
        IN  \E fail \in FailPoints(storeFails, createNote(Start(0), p).w) :
                Finish(createNote(Start(fail), p),
                       [NoOp EXCEPT !.op = "createNote", !.noteId = id,
                                    !.hasData = TRUE, !.hasContexts = TRUE,
                                    !.names = Range(L),
                                    !.repeats = Repeats(L)])

\* createNote with the store failing on any statement; last records the
\* list and the statement the call stopped at.
CreateNoteFailingWith(Inputs, Lists) ==
    \E id \in NoteIds, in \in Inputs, L \in Lists :
        LET p == [id |-> id, content |-> in.content,
                  key_context |-> in.key_context,
                  hasTags |-> FALSE, tags |-> <<>>,
                  contexts |-> L]
        IN  \E fail \in 0..createNote(Start(0), p).w :
                LET R == createNote(Start(fail), p)
                IN  Finish(R,
                       [NoOp EXCEPT !.op = "createNote", !.noteId = id,
                                    !.hasData = TRUE, !.hasContexts = TRUE,
                                    !.names = Range(L), !.list = L,
                                    !.w = R.w])

\* updateNote with a patch that may carry created_at and updated_at.
Stamps == 0..MaxClock

UpdateNoteStampWith ==
    \E id \in NoteIds, hca \in BOOLEAN, hua \in BOOLEAN,
       ca \in Stamps, ua \in Stamps :
        /\ ~hca => ca = 0
        /\ ~hua => ua = 0
        /\ LET p == [Patch(FALSE, FALSE, <<>>) EXCEPT
                        !.hasCreatedAt = hca, !.created_at = ca,
                        !.hasUpdatedAt = hua, !.updated_at = ua]
           IN  Finish(updateNote(Start(0), id, p),
                      [NoOp EXCEPT !.op = "updateNote", !.noteId = id,
                                   !.hasData = hca \/ hua])

UpdateNoteWith(Lists, storeFails) ==
    \E id \in NoteIds, hc \in BOOLEAN, hx \in BOOLEAN, L \in Lists :
        /\ ~hx => L = <<>>
        /\ LET p == Patch(hc, hx, L)
           IN  \E fail \in FailPoints(storeFails,
                                      updateNote(Start(0), id, p).w) :
                   Finish(updateNote(Start(fail), id, p),
                          [NoOp EXCEPT !.op = "updateNote", !.noteId = id,
                                       !.hasData = hc, !.hasContexts = hx,
                                       !.names = Range(L),
                                       !.repeats = Repeats(L)])

DeleteNoteWith(storeFails) ==
    \E id \in NoteIds :
        \E fail \in FailPoints(storeFails, deleteNote(Start(0), id).w) :
            Finish(deleteNote(Start(fail), id),
                   [NoOp EXCEPT !.op = "deleteNote", !.noteId = id])

RenameContextWith(Olds, News, storeFails) ==
    \E oldName \in Olds, newName \in News :
        \E fail \in FailPoints(storeFails,
                               renameContext(Start(0), oldName, newName).w) :
            LET R == renameContext(Start(fail), oldName, newName)
            IN  Finish(R,
                   [NoOp EXCEPT !.op = "renameContext",
                                !.oldName = oldName, !.newName = newName,
                                !.w = R.w, !.upd = R.upd])

\* updateNote with a patch that may carry an embedding and an
\* embedding_model.
UpdateNoteEmbeddingWith(Lists, storeFails) ==
    \E id \in NoteIds, hc \in BOOLEAN, hx \in BOOLEAN, L \in Lists,
       emb \in Embeddings \cup {Undef}, model \in PatchModels :
        /\ ~hx => L = <<>>
        /\ LET p == [Patch(hc, hx, L) EXCEPT !.embedding = emb,
                                             !.embedding_model = model]
           IN  \E fail \in FailPoints(storeFails,
                                      updateNote(Start(0), id, p).w) :
                   Finish(updateNote(Start(fail), id, p),
                          [NoOp EXCEPT !.op = "updateNote", !.noteId = id,
                                       !.hasData = hc, !.hasContexts = hx,
                                       !.names = Range(L),
                                       !.emb = emb, !.model = model])

UpsertEmbeddingWith(Texts, Models, storeFails) ==
    \E id \in NoteIds, emb \in Texts, model \in Models :
        \E fail \in FailPoints(storeFails,
                               upsertEmbedding(Start(0), id, emb, model).w) :
            Finish(upsertEmbedding(Start(fail), id, emb, model),
                   [NoOp EXCEPT !.op = "upsertEmbedding", !.noteId = id,
                                !.emb = emb, !.model = model])

\* deleteNote, which the store may fail or the process may leave at any of
\* its statements.
DeleteNoteInterruptible ==
    \E id \in NoteIds, crash \in BOOLEAN :
        \E fail \in 0..deleteNote(Start(0), id).w :
            /\ crash => fail > 0
            /\ LET S == IF crash THEN StartInterrupted(fail) ELSE Start(fail)
                   R == deleteNote(S, id)
               IN  Finish(R,
                      [NoOp EXCEPT !.op = "deleteNote", !.noteId = id,
                                   !.w = R.w, !.preNote = notes[id]])

\* A query: it changes no table.
Answer(rec) ==
    /\ last' = rec
    /\ UNCHANGED <<notes, contexts, links, nextId, clock, calls, txn>>

FetchNotesWith(KeyContexts, Lists) ==
    \E kc \in KeyContexts, L \in Lists, method \in {Undef, "AND", "OR"} :
        Answer([NoOp EXCEPT
            !.op = "fetchNotes", !.keyContext = kc, !.list = L,
            !.method = method,
            !.found = fetchNotes(notes, links, contexts,
                          [keyContext |-> kc, contexts |-> L,
                           method |-> method])])

\* createNote with tags.
CreateNoteTagsWith(Inputs, Lists, TagLists) ==
    \E id \in NoteIds, in \in Inputs, L \in Lists, T \in TagLists :
        LET p == [id |-> id, content |-> in.content,
                  key_context |-> in.key_context,
                  hasTags |-> TRUE, tags |-> T,
                  contexts |-> L]
        IN  Finish(createNote(Start(0), p),
                   [NoOp EXCEPT !.op = "createNote", !.noteId = id,
                                !.hasData = TRUE, !.hasContexts = TRUE,
                                !.names = Range(L),
                                !.repeats = Repeats(L)])

\* filterNotes: the page query and the count query read the same tables.
\* An optional number: absent, or one of S.
Optional(S) ==
    {[has |-> FALSE, val |-> 0]} \cup {[has |-> TRUE, val |-> x] : x \in S}

FilterNotesWith(Limits, Afters, Befores, Lists, HashtagLists) ==
    \E l \in Limits, a \in Afters, b \in Befores,
       L \in Lists, H \in HashtagLists :
        LET filters == [contexts |-> L,
                        hasCreatedAfter |-> a.has, createdAfter |-> a.val,
                        hasCreatedBefore |-> b.has, createdBefore |-> b.val,
                        hashtags |-> H,
                        hasLimit |-> l.has, limit |-> l.val]
            limit == effectiveLimit(filters)
            rows  == selectWhere(notes, links, contexts, filters)
        IN  \E ordered \in orderByCreatedAtDesc(notes, rows) :
                Answer([NoOp EXCEPT
                    !.op = "filterNotes", !.filters = filters,
                    !.page = sqlLimit(ordered, limit),
                    !.totalCount = Cardinality(rows),
                    !.limit = limit])

\* calculateCosineSimilarity on two vectors.
CosineWith(Vectors) ==
    \E a, b \in Vectors :
        Answer([NoOp EXCEPT !.op = "cosine", !.a = a, !.b = b,
                            !.result = calculateCosineSimilarity(a, b)])

\* Another writer of the database file leaves a text that is not JSON in
\* the embedding column of a note that has an embedding.
CorruptEmbedding ==
    \E id \in NoteIds :
        /\ notes[id].present
        /\ notes[id].embedding \notin {Null, "bad"}
        /\ notes' = [notes EXCEPT ![id].embedding = "bad"]
        /\ last' = [NoOp EXCEPT !.op = "corrupt", !.noteId = id]
        /\ UNCHANGED <<contexts, links, nextId, clock, calls, txn>>

\* executeSemanticSearch: the first query reads the rows that have an
\* embedding, the second the rows of the surviving ids.
SearchWith(Queries, Thresholds, SearchLimits) ==
    \E embedding \in Queries, similarityThreshold \in Thresholds,
       limit \in SearchLimits :
        \E scan \in anyOrder({n \in NoteIds :
                                 /\ notes[n].present
                                 /\ notes[n].embedding # Null}),
           fetch \in anyOrder({n \in NoteIds : notes[n].present}) :
            LET R == executeSemanticSearch(notes, embedding,
                         similarityThreshold, limit, scan, fetch)
            IN  Answer([NoOp EXCEPT
                    !.op = "executeSemanticSearch",
                    !.embedding = embedding,
                    !.similarityThreshold = similarityThreshold,
                    !.limit = limit,
                    !.rows = R.rows,
                    !.err = R.err])

\* searchNotesBySimilarity with any query, threshold and limit, each of
\* which may be absent.
SearchNotesBySimilarityWith(QueryOpts, ThresholdOpts, LimitOpts) ==
    \E q \in QueryOpts, t \in ThresholdOpts, l \in LimitOpts :
        LET params == [hasThreshold |-> t.has, threshold |-> t.val,
                       hasMax |-> l.has, max |-> l.val,
                       hasQuery |-> q.has, query |-> q.str]
        IN  Answer([NoOp EXCEPT !.op = "searchNotesBySimilarity",
                                !.params = params,
                                !.err = searchNotesBySimilarity(params)])

\* contextExists, whose query the store may fail.
ContextExistsWith(QueryNames) ==
    \E name \in QueryNames, fail \in 0..1 :
        LET R == contextExists(Start(fail), name)
        IN  Finish(R.db, [NoOp EXCEPT !.op = "contextExists",
                                      !.name = name, !.w = fail,
                                      !.exists = R.value])

\* fetchContextStatsPaginated with an optional limit and an optional
\* offset.
FetchContextStatsWith(Limits, Offsets) ==
    \E l \in Limits, o \in Offsets :
        LET params == [hasLimit |-> l.has, limit |-> l.val,
                       hasOffset |-> o.has, offset |-> o.val]
            groups == {statsRow(links, contexts, name) :
                          name \in linkedNames(links, contexts)}
        IN  \E ordered \in orderByLastUsedDesc(groups) :
                LET R == fetchContextStatsPaginated(links, contexts,
                                                    params, ordered)
                IN  Answer([NoOp EXCEPT
                        !.op = "fetchContextStatsPaginated",
                        !.stats = params,
                        !.page = R.contexts,
                        !.totalCount = R.totalCount,
                        !.hasMore = R.hasMore])

\* upsertContexts, the step of createNote and updateNote that resolves the
\* names of a list to context ids.
UpsertContextsWith(Lists, storeFails) ==
    \E L \in Lists :
        \E fail \in FailPoints(storeFails, upsertContexts(Start(0), L).db.w) :
            LET U == upsertContexts(Start(fail), L)
            IN  Finish(U.db,
                   [NoOp EXCEPT !.op = "upsertContexts", !.list = L,
                                !.ids = IF U.db.err = "ok" THEN U.ids ELSE <<>>,
                                !.names = Range(L), !.repeats = Repeats(L),
                                !.again = /\ last.op = "upsertContexts"
                                          /\ last.err = "ok"
                                          /\ last.list = L])

\* Time passes between two operations.
Tick ==
    /\ clock < MaxClock
    /\ clock' = clock + 1
    /\ last' = [NoOp EXCEPT !.op = "tick"]
    /\ UNCHANGED <<notes, contexts, links, nextId, calls, txn>>

\* Spec: the four operations on plain notes, over two context names, with
\* any list of names and the store failing on any statement.
CreateNoteOp == CreateNoteWith({PlainNote}, NameLists(GraphNames), TRUE)

UpdateNoteOp == UpdateNoteWith(NameLists(GraphNames), TRUE)

DeleteNoteOp == DeleteNoteWith(TRUE)

RenameContextOp == RenameContextWith(GraphNames, GraphNames, TRUE)

Next ==
    \/ CreateNoteOp
    \/ UpdateNoteOp
    \/ DeleteNoteOp
    \/ RenameContextOp

Spec == Init /\ [][Next]_vars

\* SpecRename: renames and merges over three context names; notes are
\* created and deleted without failure, the store fails on any statement
\* of renameContext.
CreateNoteR == CreateNoteWith({PlainNote}, DistinctLists(Names), FALSE)

DeleteNoteR == DeleteNoteWith(FALSE)

RenameContextR == RenameContextWith(Names, Names, TRUE)

NextRename ==
    \/ CreateNoteR
    \/ DeleteNoteR
    \/ RenameContextR

SpecRename == Init /\ [][NextRename]_vars

\* SpecContent: renames and merges, with the store failing on any of their
\* statements, of notes whose content and key_context refer to a context.
CreateNoteC ==
    CreateNoteWith({PlainNote, WorkNote}, DistinctLists(GraphNames), FALSE)

DeleteNoteC == DeleteNoteWith(FALSE)

RenameContextC == RenameContextWith(GraphNames, GraphNames, TRUE)

NextContent ==
    \/ CreateNoteC
    \/ DeleteNoteC
    \/ RenameContextC

SpecContent == Init /\ [][NextContent]_vars

\* SpecClock: renames and merges while time passes, so that links carry
\* different created_at.
CreateNoteT == CreateNoteWith({PlainNote}, DistinctLists(GraphNames), FALSE)

DeleteNoteT == DeleteNoteWith(FALSE)

RenameContextT == RenameContextWith(GraphNames, GraphNames, FALSE)

NextClock ==
    \/ CreateNoteT
    \/ DeleteNoteT
    \/ RenameContextT
    \/ Tick

SpecClock == Init /\ [][NextClock]_vars

\* SpecUpsert: upsertContexts on its own, with any list over three names
\* and the store failing on any insert, between renames and merges.
UpsertContextsU == UpsertContextsWith(NameLists(Names), TRUE)

RenameContextU == RenameContextWith(Names, Names, FALSE)

NextUpsert ==
    \/ UpsertContextsU
    \/ RenameContextU

SpecUpsert == Init /\ [][NextUpsert]_vars

\* SpecEmbed: notes with embeddings.  updateNote takes any patch of
\* content, embedding, embedding_model and contexts, upsertEmbedding stores
\* an embedding, and deleteNote may stop at any of its statements.
EmbedLists == {<<>>, <<"work">>}

CreateNoteE == CreateNoteWith({PlainNote}, EmbedLists, FALSE)

UpdateNoteE == UpdateNoteEmbeddingWith(EmbedLists, FALSE)

UpsertEmbeddingE == UpsertEmbeddingWith(Embeddings, {"m1"}, TRUE)

NextEmbed ==
    \/ CreateNoteE
    \/ UpdateNoteE
    \/ UpsertEmbeddingE
    \/ DeleteNoteInterruptible

SpecEmbed == Init /\ [][NextEmbed]_vars

\* SpecTime: the timestamps of a note row while time passes, under
\* createNote, updateNote with patches of created_at and updated_at, and
\* renameContext.
CreateNoteS == CreateNoteWith({WorkNote}, {<<"work">>}, FALSE)

RenameContextS == RenameContextWith({"work"}, {"urgent"}, FALSE)

NextTime ==
    \/ CreateNoteS
    \/ UpdateNoteStampWith
    \/ RenameContextS
    \/ Tick

SpecTime == Init /\ [][NextTime]_vars

\* SpecCreate: createNote with the store failing on any of its statements,
\* for any list of names, and deleteNote.
CreateNoteF == CreateNoteFailingWith({WorkNote}, NameLists(GraphNames))

DeleteNoteF == DeleteNoteWith(FALSE)

NextCreate ==
    \/ CreateNoteF
    \/ DeleteNoteF

SpecCreate == Init /\ [][NextCreate]_vars

\* SpecFetch: fetchNotes with any key context, list of names and method,
\* on notes with and without a key context, linked to any set of contexts.
CreateNoteQ ==
    CreateNoteWith({PlainNote, WorkNote}, DistinctLists(GraphNames), FALSE)

DeleteNoteQ == DeleteNoteWith(FALSE)

FetchNotesQ == FetchNotesWith({Undef, "work"}, NameLists(GraphNames))

NextFetch ==
    \/ CreateNoteQ
    \/ DeleteNoteQ
    \/ FetchNotesQ

SpecFetch == Init /\ [][NextFetch]_vars

\* SpecLimit: filterNotes with any limit, on notes created at different
\* times.
Limits == {-1, 0, 1, 50, 51}

CreateNoteL == CreateNoteWith({PlainNote, WorkNote}, {<<>>}, FALSE)

DeleteNoteL == DeleteNoteWith(FALSE)

FilterNotesL ==
    FilterNotesWith(Optional(Limits), Optional(Stamps), Optional({}),
                    {<<>>}, {<<>>})

NextLimit ==
    \/ CreateNoteL
    \/ DeleteNoteL
    \/ FilterNotesL
    \/ Tick

SpecLimit == Init /\ [][NextLimit]_vars

\* SpecFilter: filterNotes with any creation range, context list and
\* hashtag list, on notes with tags, created at different times.
\* The tags and hashtags, as character sequences: ab, Ab, b, a%, a_, a".
NoteTagLists ==
    {<<>>, <<<<"a", "b">>>>, <<<<"b">>, <<"a", "\"">>>>}

HashtagLists ==
    {<<>>, <<<<"a", "b">>>>, <<<<"A", "b">>>>, <<<<"a", "%">>>>,
     <<<<"a", "\"">>>>, <<<<"a", "_">>, <<"b">>>>}

CreateNoteFl ==
    CreateNoteTagsWith({PlainNote}, {<<"work">>, <<"work", "urgent">>},
                       NoteTagLists)

FilterNotesFl ==
    FilterNotesWith(Optional({}), Optional(Stamps), Optional({0}),
                    {<<>>, <<"work", "urgent">>}, HashtagLists)

NextFilter ==
    \/ CreateNoteFl
    \/ FilterNotesFl
    \/ Tick

SpecFilter == Init /\ [][NextFilter]_vars

\* SpecCosine: calculateCosineSimilarity on all vectors of up to MaxDim
\* components, each an integer or a tiny number.
MaxDim == 2

Components == {Num(-1), Num(0), Num(1), Num(2), TinyNum(1), TinyNum(-1)}

VectorsUpTo(n) == UNION {[1..k -> Components] : k \in 0..n}

Vec(s) == [i \in DOMAIN s |-> Num(s[i])]

Cosine == CosineWith(VectorsUpTo(MaxDim))

NextCosine == Cosine

SpecCosine == Init /\ [][NextCosine]_vars

\* SpecSearch: executeSemanticSearch on notes with and without embeddings,
\* some of another length than the query, some not JSON.
MaxLimit == 2

CreateNoteSr == CreateNoteWith({PlainNote}, {<<>>}, FALSE)

UpsertEmbeddingSr ==
    UpsertEmbeddingWith({"e1", "e2", "e3", "short"}, {"m1"}, FALSE)

Search ==
    SearchWith({<<Num(1), Num(0)>>, <<Num(1), Num(1)>>, <<Num(0), Num(0)>>},
               {SimZero, SimHalf, SimOne}, 0..MaxLimit)

NextSearch ==
    \/ CreateNoteSr
    \/ UpsertEmbeddingSr
    \/ CorruptEmbedding
    \/ Search

SpecSearch == Init /\ [][NextSearch]_vars

\* SpecSimilarity: searchNotesBySimilarity with absent, empty, blank and
\* non-blank queries, thresholds around [0, 1] and limits around [1, 1000].
QueryOpts ==
    {[has |-> FALSE, str |-> <<>>], [has |-> TRUE, str |-> <<>>],
     [has |-> TRUE, str |-> <<" ">>], [has |-> TRUE, str |-> <<" ", " ">>],
     [has |-> TRUE, str |-> <<"q">>], [has |-> TRUE, str |-> <<" ", "q">>]}

CreateNoteSm == CreateNoteWith({PlainNote}, {<<>>}, FALSE)

SearchNotesBySimilarity ==
    SearchNotesBySimilarityWith(QueryOpts, Optional({-1, 0, 50, 100, 101}),
                                Optional({-1, 0, 1, 1000, 1001}))

NextSimilarity ==
    \/ CreateNoteSm
    \/ SearchNotesBySimilarity

SpecSimilarity == Init /\ [][NextSimilarity]_vars

\* SpecExists: contextExists on linked, orphaned and absent contexts, for
\* names that differ from a stored name in case only.
CreateNoteX == CreateNoteWith({PlainNote}, DistinctLists(GraphNames), FALSE)

DeleteNoteX == DeleteNoteWith(FALSE)

ContextExists == ContextExistsWith({"work", "Work", "urgent", "home"})

NextExists ==
    \/ CreateNoteX
    \/ DeleteNoteX
    \/ ContextExists

SpecExists == Init /\ [][NextExists]_vars

(***************************************************************************)
(* Interleaved calls: the actions.                                         *)
(***************************************************************************)
\* No call has started: the operations above run one after the other.
Quiet == \A p \in Procs : calls[p].pc = "idle"

InFlight(p) == calls[p].pc \notin {"idle", "done"}

\* Call c of slot p executes the statement it awaits, the store failing on
\* it when fail = 1.  A renameContext that ends has run COMMIT, or ROLLBACK
\* when it throws: the connection's transaction is over, and after
\* ROLLBACK the tables are as they were at BEGIN.
Proceed(p, c, fail) ==
    LET R == callStep(c, Start(fail))
        ended == c.op = "renameContext" /\ R.call.pc = "done"
        E == IF ended /\ R.call.err # "ok" THEN Rollback(txn, R.db) ELSE R.db
    IN  /\ E.nextId <= MaxCtxIds
        /\ notes' = E.notes
        /\ contexts' = E.contexts
        /\ links' = E.links
        /\ nextId' = E.nextId
        /\ txn' = IF ended THEN NoTxn ELSE txn
        /\ calls' = [calls EXCEPT ![p] = R.call]
        /\ UNCHANGED <<clock, last>>

\* A createNote call starts: it runs up to its first await and the INSERT
\* of the note row is executed.
CallCreateNoteWith(Lists) ==
    \E p \in Procs, id \in NoteIds, L \in Lists :
        /\ calls[p].pc = "idle"
        /\ Proceed(p, [NoCall EXCEPT !.op = "createNote",
                                     !.pc = "insertNote", !.noteId = id,
                                     !.hasData = TRUE, !.hasContexts = TRUE,
                                     !.list = L], 0)

CallUpdateNoteWith(Datas, Lists) ==
    \E p \in Procs, id \in NoteIds, hasData \in Datas, L \in Lists :
        /\ calls[p].pc = "idle"
        /\ Proceed(p, [NoCall EXCEPT !.op = "updateNote",
                                     !.pc = "noteRow", !.noteId = id,
                                     !.hasData = hasData,
                                     !.hasContexts = TRUE, !.list = L], 0)

CallDeleteNote ==
    \E p \in Procs, id \in NoteIds :
        /\ calls[p].pc = "idle"
        /\ Proceed(p, [NoCall EXCEPT !.op = "deleteNote",
                                     !.pc = "deleteLinks", !.noteId = id], 0)

\* A renameContext call starts: BEGIN runs before the first await.  It
\* throws when a transaction is already open on the connection.
CallRenameContextWith(Olds, News) ==
    \E p \in Procs, oldName \in Olds, newName \in News :
        LET c == [NoCall EXCEPT !.op = "renameContext", !.pc = "selectNew",
                                !.oldName = oldName, !.newName = newName]
        IN  /\ calls[p].pc = "idle"
            /\ calls' = [calls EXCEPT ![p] =
                            IF txn.open THEN Done(c, "StoreFailure") ELSE c]
            /\ txn' = IF txn.open THEN txn
                      ELSE [notes |-> notes, contexts |-> contexts,
                            links |-> links, open |-> TRUE]
            /\ UNCHANGED <<notes, contexts, links, nextId, clock, last>>

\* A call in flight resumes after an await; the store may fail on the
\* statement of a call of the operations FailingOps.
ResumeWith(FailingOps) ==
    \E p \in Procs :
        /\ InFlight(p)
        /\ \E fail \in FailPoints(calls[p].op \in FailingOps, 1) :
               Proceed(p, calls[p], fail)

\* SpecRace: on a store that createNote calls have filled one after the
\* other, two calls of createNote, updateNote (a patch of contexts) and
\* deleteNote run interleaved, with non-empty lists that name no context
\* twice; the store does not fail.
RaceLists == DistinctLists(GraphNames) \ {<<>>}

CreateNoteRc ==
    Quiet /\ CreateNoteWith({PlainNote}, DistinctLists({"work"}), FALSE)

CallCreateNoteR == CallCreateNoteWith(RaceLists)

CallUpdateNoteR == CallUpdateNoteWith({FALSE}, RaceLists)

ResumeR == ResumeWith({})

NextRace ==
    \/ CreateNoteRc
    \/ CallCreateNoteR
    \/ CallUpdateNoteR
    \/ CallDeleteNote
    \/ ResumeR

SpecRace == Init /\ [][NextRace]_vars

\* SpecIsolation: on a store that createNote calls have filled one after
\* the other, two calls of renameContext, createNote, updateNote and
\* deleteNote run interleaved on the one connection; the store may fail on
\* any statement of a renameContext.
IsolationLists == {<<"work">>, <<"work", "urgent">>}

CreateNoteIs == Quiet /\ CreateNoteWith({WorkNote}, IsolationLists, FALSE)

CallRenameContextIs == CallRenameContextWith({"work", "home"}, {"urgent"})

CallCreateNoteIs == CallCreateNoteWith({<<"work">>})

CallUpdateNoteIs == CallUpdateNoteWith({FALSE}, {<<"urgent">>})

ResumeIs == ResumeWith({"renameContext"})

NextIsolation ==
    \/ CreateNoteIs
    \/ CallRenameContextIs
    \/ CallCreateNoteIs
    \/ CallUpdateNoteIs
    \/ CallDeleteNote
    \/ ResumeIs

SpecIsolation == Init /\ [][NextIsolation]_vars

\* SpecStats: fetchContextStatsPaginated with a limit that is absent or
\* positive and an offset that is absent, zero or positive, on notes linked
\* at different times.
CreateNoteSt == CreateNoteWith({PlainNote}, DistinctLists(GraphNames), FALSE)

DeleteNoteSt == DeleteNoteWith(FALSE)

FetchContextStats ==
    FetchContextStatsWith(Optional(1..MaxLimit), Optional(0..MaxLimit))

NextStats ==
    \/ CreateNoteSt
    \/ DeleteNoteSt
    \/ FetchContextStats
    \/ Tick

SpecStats == Init /\ [][NextStats]_vars

(***************************************************************************)
(* Properties.                                                             *)
(***************************************************************************)
PreContexts == last.pre.contexts

PreLinks == last.pre.links

HasName(C, name) == \E c \in C : c.name = name

IdOf(C, name) == (CHOOSE c \in C : c.name = name).id

Linked(L, noteId, contextId) ==
    \E r \in DOMAIN L : r.note_id = noteId /\ r.context_id = contextId

\* Number of link rows of the pair (noteId, contextId).
RowCount(L, noteId, contextId) ==
    BagCardinality(BagFilter(L,
        LAMBDA r : r.note_id = noteId /\ r.context_id = contextId))

UpdateOk == last.op = "updateNote" /\ last.err = "ok"

RenameOk == last.op = "renameContext" /\ last.err = "ok"

\* renameContext(A, B) returned, A existed and B did not.
PureRename ==
    /\ RenameOk
    /\ HasName(PreContexts, last.oldName)
    /\ ~HasName(PreContexts, last.newName)

\* renameContext(A, B) returned, A and B were two existing contexts.
Merge ==
    /\ RenameOk
    /\ last.oldName # last.newName
    /\ HasName(PreContexts, last.oldName)
    /\ HasName(PreContexts, last.newName)

\* C1: after a successful updateNote(id, {contexts: []}) the note has no
\* link row.
C1_EmptyContextsClearLinks ==
    (UpdateOk /\ last.hasContexts /\ last.names = {})
        => ~(\E r \in DOMAIN links : r.note_id = last.noteId)

\* C2: after a successful updateNote(id, {contexts: L}) with L non-empty,
\* the names of the contexts linked to the note are exactly the names of L:
\* every link row of the note points to a context named in L, and every
\* name of L is linked.
C2_NonEmptyContextsReplaceLinks ==
    (UpdateOk /\ last.hasContexts /\ last.names # {})
        => /\ fetchContextsForNote(links, contexts, last.noteId) = last.names
           /\ \A r \in DOMAIN links :
                 r.note_id = last.noteId
                    => \E c \in contexts :
                          c.id = r.context_id /\ c.name \in last.names

\* The update replaced links the note had to other contexts.
C2_Witness ==
    /\ UpdateOk
    /\ last.hasContexts
    /\ last.names # {}
    /\ fetchContextsForNote(PreLinks, PreContexts, last.noteId) \ last.names
          # {}

\* C3: a successful updateNote whose patch has no contexts key leaves the
\* link table and the contexts table as they were.
C3_AbsentContextsKeepLinks ==
    [][(last'.op = "updateNote" /\ last'.err = "ok" /\ ~last'.hasContexts)
          => (links' = links /\ contexts' = contexts)]_vars

\* A patch of columns only was applied to a note that has links.
C3_Witness ==
    /\ UpdateOk
    /\ ~last.hasContexts
    /\ last.hasData
    /\ \E r \in DOMAIN links : r.note_id = last.noteId

C5_PureRename ==
    PureRename =>
        /\ \A n \in NoteIds :
              (last.newName \in fetchContextsForNote(links, contexts, n))
                 <=> (last.oldName
                         \in fetchContextsForNote(PreLinks, PreContexts, n))
        /\ ~HasName(contexts, last.oldName)
        /\ \A n \in NoteIds :
              fetchContextsForNote(links, contexts, n)
                    \ {last.oldName, last.newName}
                 = fetchContextsForNote(PreLinks, PreContexts, n)
                    \ {last.oldName, last.newName}

\* A pure rename of a context linked to a note that has another link too.
C5_Witness ==
    /\ PureRename
    /\ \E n \in NoteIds :
          /\ last.newName \in fetchContextsForNote(links, contexts, n)
          /\ Cardinality(fetchContextsForNote(links, contexts, n)) > 1

\* C6: after a merge of A into B (two existing contexts), a note that was
\* linked to both has exactly one link to B and none to A, a note that was
\* linked only to A is linked to B and not to A, and a note linked to
\* neither has the link rows it had.
C6_Merge ==
    Merge =>
        LET a == IdOf(PreContexts, last.oldName)
            b == IdOf(PreContexts, last.newName)
            post(n) == fetchContextsForNote(links, contexts, n)
        IN  \A n \in NoteIds :
              /\ (Linked(PreLinks, n, a) /\ Linked(PreLinks, n, b))
                    => /\ RowCount(links, n, b) = 1
                       /\ ~Linked(links, n, a)
                       /\ last.newName \in post(n)
                       /\ last.oldName \notin post(n)
              /\ (Linked(PreLinks, n, a) /\ ~Linked(PreLinks, n, b))
                    => /\ Linked(links, n, b)
                       /\ ~Linked(links, n, a)
                       /\ last.newName \in post(n)
                       /\ last.oldName \notin post(n)
              /\ (~Linked(PreLinks, n, a) /\ ~Linked(PreLinks, n, b))
                    => LinksOfNote(links, n) = LinksOfNote(PreLinks, n)

\* A merge with a note linked to both contexts and a note linked only to
\* the old one.
C6_Witness ==
    /\ Merge
    /\ LET a == IdOf(PreContexts, last.oldName)
           b == IdOf(PreContexts, last.newName)
       IN  \E n1, n2 \in NoteIds :
              /\ Linked(PreLinks, n1, a) /\ Linked(PreLinks, n1, b)
              /\ Linked(PreLinks, n2, a) /\ ~Linked(PreLinks, n2, b)

\* C7: a renameContext that throws leaves the notes, the contexts and the
\* links as they were before the call.
C7_RenameAtomic ==
    [][(last'.op = "renameContext" /\ last'.err # "ok")
          => (notes' = notes /\ contexts' = contexts /\ links' = links)]_vars

\* The store failed after the link statements of a renameContext of a
\* context that is the key context of a linked note.
C7_Witness ==
    /\ last.op = "renameContext"
    /\ last.err = "StoreFailure"
    /\ last.w >= 3
    /\ \E n \in NoteIds :
          /\ notes[n].present
          /\ notes[n].key_context = last.oldName
          /\ last.oldName \in fetchContextsForNote(links, contexts, n)

\* C8: after a merge of A into B, the context row of A is gone, the row of
\* B is there with the id it had, and no link row has A's id.
C8_MergeCompletion ==
    Merge =>
        LET a == IdOf(PreContexts, last.oldName)
            b == IdOf(PreContexts, last.newName)
        IN  /\ ~(\E c \in contexts : c.id = a \/ c.name = last.oldName)
            /\ ContextRow(b, last.newName) \in contexts
            /\ ~(\E r \in DOMAIN links : r.context_id = a)

\* A merge of a context that had no link.
C8_Witness ==
    /\ Merge
    /\ ~(\E r \in DOMAIN PreLinks :
            r.context_id = IdOf(PreContexts, last.oldName))

\* C9: in a merge of A into B, the link of a note that was linked only to A
\* is the same row with B's id and the created_at it had, and the links
\* that B had are kept as they were; a note has no other link to B.
C9_MergeKeepsCreatedAt ==
    Merge =>
        LET a == IdOf(PreContexts, last.oldName)
            b == IdOf(PreContexts, last.newName)
            onlyA == {r \in DOMAIN PreLinks :
                         r.context_id = a /\ ~Linked(PreLinks, r.note_id, b)}
        IN  {r \in DOMAIN links : r.context_id = b}
               = {r \in DOMAIN PreLinks : r.context_id = b}
                    \cup {LinkRow(r.note_id, b, r.created_at) : r \in onlyA}

\* A merge, later than a link it repoints, with another note linked to both
\* contexts.
C9_Witness ==
    /\ Merge
    /\ LET a == IdOf(PreContexts, last.oldName)
           b == IdOf(PreContexts, last.newName)
       IN  /\ \E r \in DOMAIN PreLinks :
                 /\ r.context_id = a
                 /\ ~Linked(PreLinks, r.note_id, b)
                 /\ r.created_at < clock
           /\ \E r \in DOMAIN PreLinks :
                 r.context_id = a /\ Linked(PreLinks, r.note_id, b)

\* C10: renameContext(oldName, newName) with no context named oldName throws
\* ContextNotFound (unless the store failed on the lookup) and leaves the
\* notes, the contexts and the links as they were.
C10_RenameMissing ==
    [][(last'.op = "renameContext" /\ ~HasName(contexts, last'.oldName))
          => /\ last'.err \in {"ContextNotFound", "StoreFailure"}
             /\ (last'.err = "StoreFailure" => last'.w = 1)
             /\ notes' = notes /\ contexts' = contexts /\ links' = links]_vars

\* ContextNotFound although a context named newName exists.
C10_Witness ==
    /\ last.op = "renameContext"
    /\ last.err = "ContextNotFound"
    /\ HasName(contexts, last.newName)
    /\ ~HasName(contexts, last.oldName)
    /\ links # EmptyBag

\* C11: after a successful renameContext(A, B), a note that was linked to A
\* and had key_context A has key_context B, a note that was not linked to A
\* has the content and the key_context it had, and a linked note whose
\* content does not mention A and whose key_context is not A gets no UPDATE
\* of its row.
C11_RenameRewritesNotes ==
    [][(last'.op = "renameContext" /\ last'.err = "ok")
          => LET a == IdOf(contexts, last'.oldName)
             IN  \A n \in NoteIds :
                   /\ (Linked(links, n, a) /\ notes[n].present
                          /\ notes[n].key_context = last'.oldName)
                         => notes'[n].key_context = last'.newName
                   /\ ~Linked(links, n, a) => notes'[n] = notes[n]
                   /\ (Linked(links, n, a)
                          /\ notes[n].key_context # last'.oldName
                          /\ \A i \in DOMAIN notes[n].content :
                                LowerCase(notes[n].content[i])
                                   # last'.oldName)
                         => (n \notin last'.upd /\ notes'[n] = notes[n])]_vars

\* A rename that rewrote the key_context of one linked note and issued no
\* UPDATE for the other linked note, while a context of another name exists.
C11_Witness ==
    /\ RenameOk
    /\ last.oldName # last.newName
    /\ \E n1, n2 \in NoteIds :
          /\ n1 \in last.upd
          /\ notes[n1].key_context = last.newName
          /\ n2 \notin last.upd
          /\ notes[n2].present
          /\ Linked(links, n1, IdOf(contexts, last.newName))
          /\ Linked(links, n2, IdOf(contexts, last.newName))

\* C12: a successful upsertContexts returns one id for each name of its
\* list, in the order of the list, each the id of the context row of that
\* name, so a name repeated in the list has the same id at each position;
\* called again with the same list, it returns the same ids and leaves the
\* contexts table as it was.
C12_UpsertIdempotent ==
    [][(last'.op = "upsertContexts" /\ last'.err = "ok")
          => /\ Len(last'.ids) = Len(last'.list)
             /\ \A i \in DOMAIN last'.list :
                   ContextRow(last'.ids[i], last'.list[i]) \in contexts'
             /\ \A i, j \in DOMAIN last'.list :
                   last'.list[i] = last'.list[j]
                      => last'.ids[i] = last'.ids[j]
             /\ last'.again
                   => (last'.ids = last.ids /\ contexts' = contexts)]_vars

\* A second call with a list of two names whose contexts were not created
\* in the order of the list.
C12_Witness ==
    /\ last.op = "upsertContexts"
    /\ last.err = "ok"
    /\ last.again
    /\ Len(last.list) = 2
    /\ last.ids[1] > last.ids[2]

\* C13: no two context rows have the same name.
C13_ContextNameUnique ==
    \A c1, c2 \in contexts : c1.name = c2.name => c1.id = c2.id

\* A createNote or updateNote whose list names one context twice has run,
\* and two contexts exist.
C13_Witness ==
    /\ last.op \in {"createNote", "updateNote"}
    /\ last.repeats
    /\ Cardinality(contexts) = 2

\* C14: a successful deleteNote(id) of an existing note leaves no note row
\* and no link row of that id, and leaves every other note and its links
\* as they were.
C14_DeleteRemovesNote ==
    [][(last'.op = "deleteNote" /\ last'.err = "ok"
           /\ notes[last'.noteId].present)
          => /\ notes'[last'.noteId] = NoNote
             /\ ~(\E r \in DOMAIN links' : r.note_id = last'.noteId)
             /\ \A n \in NoteIds \ {last'.noteId} :
                   /\ notes'[n] = notes[n]
                   /\ LinksOfNote(links', n) = LinksOfNote(links, n)]_vars

\* A note with an embedding and a link was deleted while another note with
\* a link exists.
C14_Witness ==
    /\ last.op = "deleteNote"
    /\ last.err = "ok"
    /\ last.preNote.present
    /\ last.preNote.embedding # Null
    /\ \E r \in DOMAIN PreLinks : r.note_id = last.noteId
    /\ \E n \in NoteIds \ {last.noteId} :
          notes[n].present /\ LinksOfNote(links, n) # EmptyBag

\* C15: a deleteNote(id) that is interrupted after k of its statements has
\* deleted the links of the note if k >= 1, has cleared the embedding and
\* the embedding_model of the note if k = 2, and has not deleted the note
\* row; no link row of the state it leaves refers to a note that has no
\* row.
C15_DeleteOrder ==
    [][(last'.op = "deleteNote" /\ last'.err = "Interrupted")
          => LET id == last'.noteId
                 k == last'.w - 1
                 cleared ==
                     [notes EXCEPT ![id] =
                         IF @.present
                         THEN [@ EXCEPT !.embedding = Null,
                                        !.embedding_model = Null]
                         ELSE @]
             IN  /\ k \in 0..2
                 /\ links' = IF k >= 1
                             THEN BagFilter(links, LAMBDA r : r.note_id # id)
                             ELSE links
                 /\ notes' = IF k = 2 THEN cleared ELSE notes
                 /\ \A r \in DOMAIN links' : notes'[r.note_id].present]_vars

\* The deleteNote of a note with links and an embedding was interrupted
\* after its first statement.
C15_Witness ==
    /\ last.op = "deleteNote"
    /\ last.err = "Interrupted"
    /\ last.w = 2
    /\ notes[last.noteId].present
    /\ notes[last.noteId].embedding # Null
    /\ \E r \in DOMAIN PreLinks : r.note_id = last.noteId

\* C16: deleteNote(id) of an id that has no note row throws NotFound (or
\* the store's own failure) and leaves the tables as they were.
C16_DeleteMissingNotFound ==
    [][(last'.op = "deleteNote" /\ ~notes[last'.noteId].present)
          => /\ last'.err \in {"NotFound", "StoreFailure"}
             /\ notes' = notes /\ contexts' = contexts /\ links' = links]_vars

\* C17: updateNote(id, patch) of an id that has no note row, with a patch
\* of column changes or of contexts, throws NotFound (unless the store
\* failed on the first statement) and leaves the notes, the contexts and
\* the links as they were.
C17_UpdateMissingNotFound ==
    [][(last'.op = "updateNote" /\ ~notes[last'.noteId].present
           /\ (last'.hasData \/ last'.hasContexts))
          => /\ last'.err \in {"NotFound", "StoreFailure"}
             /\ notes' = notes /\ contexts' = contexts /\ links' = links]_vars

\* NotFound for a patch of contexts only, with a non-empty list, while no
\* context exists.
C17_Witness ==
    /\ last.op = "updateNote"
    /\ last.err = "NotFound"
    /\ ~last.hasData
    /\ last.hasContexts
    /\ last.repeats
    /\ contexts = {}

\* C18: updateNote throws NoUpdateFields exactly when every field of the
\* patch is undefined, and then leaves the tables as they were.
C18_NoUpdateFields ==
    [][(last'.op = "updateNote")
          => /\ (last'.err = "NoUpdateFields")
                   <=> (/\ ~last'.hasData
                        /\ ~last'.hasContexts
                        /\ last'.emb = Undef
                        /\ last'.model = Undef)
             /\ (last'.err = "NoUpdateFields")
                   => (notes' = notes /\ contexts' = contexts
                          /\ links' = links)]_vars

\* C19: a successful updateNote whose patch has an embedding leaves the
\* stored embedding of the note as it was, and stores the embedding_model
\* of the patch.
C19_UpdateKeepsEmbedding ==
    [][(last'.op = "updateNote" /\ last'.err = "ok" /\ last'.emb # Undef)
          => /\ notes'[last'.noteId].embedding = notes[last'.noteId].embedding
             /\ Truthy(last'.model)
                   => notes'[last'.noteId].embedding_model = last'.model]_vars

\* C20: every note row with an embedding has an embedding_model.
C20_EmbeddingPaired ==
    \A n \in NoteIds :
        (notes[n].present /\ notes[n].embedding # Null)
           => notes[n].embedding_model # Null

\* C21: the row that a successful createNote inserts has created_at equal
\* to updated_at; an updateNote or a renameContext leaves the created_at
\* of every note as it was and does not decrease its updated_at.
C21_Timestamps ==
    [][/\ (last'.op = "createNote" /\ last'.err = "ok")
            => notes'[last'.noteId].created_at
                  = notes'[last'.noteId].updated_at
       /\ (last'.op \in {"updateNote", "renameContext"})
            => \A n \in NoteIds :
                  notes[n].present
                     => /\ notes'[n].created_at = notes[n].created_at
                        /\ notes'[n].updated_at >= notes[n].updated_at]_vars

\* C22: a createNote of a new id that fails in the context upsert or in the
\* link write, after its insert, throws CreateFailed and leaves the
\* inserted note row in the store, with the contexts it created so far and
\* without links; the other notes and their links are as they were.
C22_CreatePartialFailure ==
    [][(/\ last'.op = "createNote"
        /\ ~notes[last'.noteId].present
        /\ last'.err # "ok"
        /\ last'.w >= 2
        /\ last'.w # (IF Len(last'.list) = 0 THEN 2
                      ELSE Cardinality(contexts') - Cardinality(contexts) + 4))
          => /\ last'.err = "CreateFailed"
             /\ notes'[last'.noteId].present
             /\ notes'[last'.noteId].content = <<"WORK">>
             /\ \A n \in NoteIds \ {last'.noteId} :
                   /\ notes'[n] = notes[n]
                   /\ LinksOfNote(links', n) = LinksOfNote(links, n)
             /\ contexts \subseteq contexts'
             /\ \A c \in contexts' \ contexts :
                   c.name \in Range(last'.list)
             /\ LinksOfNote(links', last'.noteId) = EmptyBag]_vars

\* createNote failed in the link write after it had created a context: the
\* note row is there, without links.
C22_Witness ==
    /\ last.op = "createNote"
    /\ last.err = "CreateFailed"
    /\ last.w >= 3
    /\ notes[last.noteId].present
    /\ Cardinality(contexts) > Cardinality(PreContexts)
    /\ LinksOfNote(links, last.noteId) = EmptyBag
    /\ links # EmptyBag

\* C23: fetchNotes({keyContext, contexts: L, method}) with L non-empty
\* returns the notes that are linked to every name of L when the method is
\* AND or absent, and the notes linked to at least one name of L when it is
\* OR; with a keyContext, only those of them with that key_context.
C23_FetchNotesMethod ==
    (last.op = "fetchNotes" /\ Len(last.list) > 0)
        => last.found =
              {n \in NoteIds :
                 /\ notes[n].present
                 /\ last.keyContext # Undef
                       => notes[n].key_context = last.keyContext
                 /\ IF last.method = "OR"
                    THEN Range(last.list)
                            \cap fetchContextsForNote(links, contexts, n) # {}
                    ELSE Range(last.list)
                            \subseteq fetchContextsForNote(links, contexts, n)}

\* Notes linked to {work, urgent} and to {work}: the list [work, urgent]
\* under OR returns both, while only one is linked to both names.
C23_Witness ==
    /\ last.op = "fetchNotes"
    /\ last.method = "OR"
    /\ last.keyContext = Undef
    /\ last.list = <<"work", "urgent">>
    /\ last.found = NoteIds
    /\ \E n \in NoteIds :
          fetchContextsForNote(links, contexts, n) = {"work"}
    /\ \E n \in NoteIds :
          fetchContextsForNote(links, contexts, n) = {"work", "urgent"}

\* C24: for every requested limit (absent, 0, negative, 1..50, above 50)
\* the limit filterNotes applies and echoes lies in 1..50, is 20 when none
\* was requested, and the page holds at most min(requested limit, 50) rows.
C24_LimitClamped ==
    last.op = "filterNotes"
        => /\ last.limit \in 1..50
           /\ ~last.filters.hasLimit => last.limit = 20
           /\ last.filters.hasLimit
                 => Len(last.page) <= Min(last.filters.limit, 50)

\* C25: totalCount is the number of notes that satisfy the predicate set,
\* whatever the limit; the page holds min(effective limit, totalCount) of
\* them, each once, in descending order of created_at.
C25_TotalCountAndPage ==
    last.op = "filterNotes"
        => LET rows == selectWhere(notes, links, contexts,
                           [last.filters EXCEPT !.hasLimit = FALSE,
                                                !.limit = 0])
           IN  /\ last.totalCount = Cardinality(rows)
               /\ Range(last.page) \subseteq rows
               /\ Len(last.page) = Min(last.limit, last.totalCount)
               /\ Cardinality(Range(last.page)) = Len(last.page)
               /\ \A i, j \in DOMAIN last.page :
                     i < j => notes[last.page[i]].created_at
                                  >= notes[last.page[j]].created_at

\* C26: a note is selected by filterNotes iff it satisfies every filter
\* that is present: created in the range, linked to every listed context
\* name, and with at least one listed hashtag among the elements of its
\* tags, whatever characters the hashtag holds.
C26_PredicateSet ==
    last.op = "filterNotes"
        => \A n \in NoteIds :
              (notes[n].present /\ buildFilterConditions(
                                      notes, links, contexts, n, last.filters))
              <=> /\ notes[n].present
                  /\ last.filters.hasCreatedAfter
                        => notes[n].created_at >= last.filters.createdAfter
                  /\ last.filters.hasCreatedBefore
                        => notes[n].created_at <= last.filters.createdBefore
                  /\ Range(last.filters.contexts)
                        \subseteq fetchContextsForNote(links, contexts, n)
                  /\ Len(last.filters.hashtags) > 0
                        => Range(last.filters.hashtags)
                             \cap Range(JSONparse(notes[n].tags,
                                                  NoteTagLists)) # {}

\* The similarity the search is to give a note: the cosine of the query
\* and the stored vector, and 0 for a stored embedding that is not JSON or
\* has another length.
Score(n) ==
    IF /\ notes[n].embedding # "bad"
       /\ Len(storedEmbedding(notes[n].embedding)) = Len(last.embedding)
    THEN calculateCosineSimilarity(
             last.embedding, storedEmbedding(notes[n].embedding)).sim
    ELSE SimZero

\* The notes that have an embedding and reach the threshold.
Qualifying ==
    {n \in NoteIds :
        /\ notes[n].present
        /\ notes[n].embedding # Null
        /\ SimGeq(Score(n), last.similarityThreshold)}

Returned == {last.rows[i].id : i \in DOMAIN last.rows}

\* C27: executeSemanticSearch(q, threshold, limit) returns the notes with
\* the up to limit highest similarities among the notes that have an
\* embedding and a similarity of at least the threshold: each once, with
\* its similarity, in descending order of similarity, and no qualifying
\* note that is left out scores higher than a returned one.
C27_SearchTopLimit ==
    last.op = "executeSemanticSearch"
        => /\ last.err = "ok"
           /\ Returned \subseteq Qualifying
           /\ Len(last.rows) = Min(last.limit, Cardinality(Qualifying))
           /\ Cardinality(Returned) = Len(last.rows)
           /\ \A i \in DOMAIN last.rows :
                 SimEq(last.rows[i].similarity, Score(last.rows[i].id))
           /\ \A i, j \in DOMAIN last.rows :
                 i < j => SimGeq(last.rows[i].similarity,
                                 last.rows[j].similarity)
           /\ \A n \in Qualifying \ Returned, r \in Returned :
                 SimGeq(Score(r), Score(n))

\* Embeddings [1,0] and [0,1], query [1,0], threshold 0.5: only the first
\* is returned, with similarity 1.
C27_Witness ==
    /\ last.op = "executeSemanticSearch"
    /\ notes["n1"].embedding = "e1"
    /\ notes["n2"].embedding = "e2"
    /\ last.embedding = <<Num(1), Num(0)>>
    /\ last.similarityThreshold = SimHalf
    /\ last.limit = 2
    /\ Len(last.rows) = 1
    /\ last.rows[1].id = "n1"
    /\ SimEq(last.rows[1].similarity, SimOne)

\* Two qualifying notes and a limit of 1: the higher one is returned.
C27_WitnessLimit ==
    /\ last.op = "executeSemanticSearch"
    /\ last.limit = 1
    /\ Cardinality(Qualifying) = 2
    /\ Len(last.rows) = 1
    /\ \E n \in Qualifying \ Returned :
          ~SimGeq(Score(n), last.rows[1].similarity)

\* The notes whose stored embedding is not JSON or has another length than
\* the query.
Unusable ==
    {n \in NoteIds :
        /\ notes[n].present
        /\ notes[n].embedding # Null
        /\ \/ notes[n].embedding = "bad"
           \/ Len(storedEmbedding(notes[n].embedding)) # Len(last.embedding)}

\* C28: a stored embedding that is not JSON or has another length than the
\* query does not fail the search: that note gets similarity 0, the other
\* notes are scored and ranked as without it, and the search returns an
\* empty result, not an error, when no note has an embedding or none
\* reaches the threshold.
C28_SearchSkipsUnusable ==
    last.op = "executeSemanticSearch"
        => /\ last.err = "ok"
           /\ \A i \in DOMAIN last.rows :
                 last.rows[i].id \in Unusable
                     => last.rows[i].similarity = SimZero
           /\ \A n \in Unusable :
                 (n \in Returned /\ last.limit > 0)
                     => SimGeq(SimZero, last.similarityThreshold)
           /\ \A n \in Qualifying \ Unusable :
                 \/ n \in Returned
                 \/ /\ Len(last.rows) = last.limit
                    /\ \A r \in Returned : SimGeq(Score(r), Score(n))
           /\ Qualifying = {} => last.rows = <<>>

\* One note's embedding is not JSON; the other note, whose embedding is
\* parallel to the query, is returned.
C28_Witness ==
    /\ last.op = "executeSemanticSearch"
    /\ \E n \in NoteIds : notes[n].present /\ notes[n].embedding = "bad"
    /\ \E n \in Returned \ Unusable : SimEq(Score(n), SimOne)
    /\ last.similarityThreshold = SimHalf

\* No note reaches the threshold although notes have embeddings.
C28_WitnessEmpty ==
    /\ last.op = "executeSemanticSearch"
    /\ last.err = "ok"
    /\ last.rows = <<>>
    /\ last.limit > 0
    /\ Unusable # {}
    /\ \A n \in NoteIds : notes[n].present /\ notes[n].embedding # Null

\* C29: calculateCosineSimilarity(a, b) fails, with DimensionMismatch,
\* exactly when a and b have different lengths; for equal lengths it
\* returns 0 whenever a or b has zero magnitude, both empty included.
C29_CosineFailure ==
    last.op = "cosine"
        => /\ last.result.err # "ok" <=> Len(last.a) # Len(last.b)
           /\ last.result.err # "ok" => last.result.err = "DimensionMismatch"
           /\ (/\ Len(last.a) = Len(last.b)
               /\ \/ \A i \in DOMAIN last.a : last.a[i].m = 0
                  \/ \A i \in DOMAIN last.b : last.b[i].m = 0)
                 => last.result = [err |-> "ok", sim |-> SimZero]

C29_Witness ==
    /\ last.op = "cosine"
    /\ last.a = Vec(<<1>>)
    /\ last.b = Vec(<<1, 0>>)
    /\ last.result.err = "DimensionMismatch"

\* The other cases of C29: a zero vector, and two empty vectors.
C29_WitnessZero ==
    /\ last.op = "cosine"
    /\ last.a = Vec(<<1, 2>>)
    /\ last.b = Vec(<<0, 0>>)
    /\ last.result = [err |-> "ok", sim |-> SimZero]

C29_WitnessEmpty ==
    /\ last.op = "cosine"
    /\ last.a = <<>>
    /\ last.b = <<>>
    /\ last.result = [err |-> "ok", sim |-> SimZero]

\* C30: for vectors of equal length sim(a, b) = sim(b, a); sim(a, a) = 1
\* for every non-zero a; and sim(a, b) = 0 when a or b is a zero vector.
C30_CosineLaws ==
    (last.op = "cosine" /\ Len(last.a) = Len(last.b))
        => /\ last.result.err = "ok"
           /\ calculateCosineSimilarity(last.b, last.a).err = "ok"
           /\ SimEq(last.result.sim,
                    calculateCosineSimilarity(last.b, last.a).sim)
           /\ (last.a = last.b /\ \E i \in DOMAIN last.a : last.a[i].m # 0)
                 => SimEq(last.result.sim, SimOne)
           /\ (\/ \A i \in DOMAIN last.a : last.a[i].m = 0
               \/ \A i \in DOMAIN last.b : last.b[i].m = 0)
                 => SimEq(last.result.sim, SimZero)

\* C31: searchNotesBySimilarity always fails: for an absent, empty or blank
\* query with the query error; else for a threshold outside [0, 1] with the
\* threshold error; else for a limit outside 1..1000 with the limit error;
\* and otherwise with EmbeddingRequired.  It leaves the store as it is.
C31_SimilarityAlwaysFails ==
    [][last'.op = "searchNotesBySimilarity"
          => LET p == last'.params
                 blank == ~p.hasQuery \/ \A i \in DOMAIN p.query :
                                             p.query[i] = " "
                 badThreshold == p.hasThreshold /\ p.threshold \notin 0..100
                 badLimit == p.hasMax /\ p.max \notin 1..1000
             IN  /\ last'.err # "ok"
                 /\ last'.err = "QueryRequired" <=> blank
                 /\ last'.err = "ThresholdOutOfRange"
                       <=> ~blank /\ badThreshold
                 /\ last'.err = "LimitOutOfRange"
                       <=> ~blank /\ ~badThreshold /\ badLimit
                 /\ last'.err = "EmbeddingRequired"
                       <=> ~blank /\ ~badThreshold /\ ~badLimit
                 /\ UNCHANGED <<notes, contexts, links, nextId>>]_vars

\* A call whose threshold and limit are both out of range, on a store that
\* holds a note: the threshold is reported.
C31_Witness ==
    /\ last.op = "searchNotesBySimilarity"
    /\ last.params.hasQuery
    /\ last.params.query = <<" ", "q">>
    /\ last.params.threshold = 101
    /\ last.params.max = 1001
    /\ last.err = "ThresholdOutOfRange"
    /\ \E n \in NoteIds : notes[n].present

C32_WitnessFailure ==
    /\ last.op = "contextExists"
    /\ last.w = 1
    /\ ~last.exists
    /\ \E c \in contexts : c.name = last.name

\* C33: contexts are never collected: createNote, updateNote and deleteNote
\* leave every context row in place, also one that loses its last link; a
\* context row only goes away in a successful renameContext onto an
\* existing name, and it is the row of the old name.
C33_NoContextCollection ==
    [][LET gone == {c \in contexts : \A d \in contexts' : d.id # c.id}
       IN  /\ last'.op \in {"createNote", "updateNote", "deleteNote"}
                 => contexts \subseteq contexts'
           /\ gone # {}
                 => /\ last'.op = "renameContext"
                    /\ last'.err = "ok"
                    /\ \E c \in contexts : c.name = last'.newName
                    /\ gone = {c \in contexts : c.name = last'.oldName}]_vars

\* A deleteNote removed the last link of a context, which is still there.
C33_Witness ==
    /\ last.op = "deleteNote"
    /\ last.err = "ok"
    /\ \E c \in contexts :
          /\ \E r \in DOMAIN last.pre.links : r.context_id = c.id
          /\ \A r \in DOMAIN links : r.context_id # c.id

\* An updateNote removed the last link of a context, which is still there.
C33_WitnessUpdate ==
    /\ last.op = "updateNote"
    /\ last.err = "ok"
    /\ \E c \in contexts :
          /\ \E r \in DOMAIN last.pre.links : r.context_id = c.id
          /\ \A r \in DOMAIN links : r.context_id # c.id

\* C34: a successful renameContext(A, A) of an existing context A leaves
\* the contexts table and the links table as they were.
C34_RenameToItself ==
    (/\ last.op = "renameContext"
     /\ last.oldName = last.newName
     /\ last.err = "ok")
        => /\ contexts = last.pre.contexts
           /\ links = last.pre.links

\* C35: in every state reached by createNote, updateNote, deleteNote and
\* renameContext calls (rename, merge, and rename of a name to itself),
\* the context_id of every link is the id of a context row.
C35_LinksReferToContexts ==
    \A r \in DOMAIN links : \E c \in contexts : c.id = r.context_id

\* A merge has moved a link from the old context, whose row is gone, to
\* the new one.
C35_Witness ==
    /\ last.op = "renameContext"
    /\ last.err = "ok"
    /\ last.oldName # last.newName
    /\ \E old \in last.pre.contexts :
          /\ old.name = last.oldName
          /\ \A c \in contexts : c.id # old.id
          /\ \E r \in DOMAIN last.pre.links : r.context_id = old.id
    /\ \E new \in last.pre.contexts :
          /\ new.name = last.newName
          /\ \E r \in DOMAIN links :
                r.context_id = new.id /\ r \notin DOMAIN last.pre.links

\* The call of slot p has returned or thrown.
Finished(p) == calls[p].pc = "done"

\* C37: when two interleaved createNote or updateNote calls on different
\* notes, each of which wrote or found its note row, name the same context
\* and both have finished, no two context rows have the same name and both
\* notes are linked to the one context of that name.
C37_SameContextForBoth ==
    \A p, q \in Procs, x \in GraphNames :
        (/\ p # q /\ Finished(p) /\ Finished(q)
         /\ calls[p].op \in {"createNote", "updateNote"}
         /\ calls[q].op \in {"createNote", "updateNote"}
         /\ calls[p].w >= 1 /\ calls[q].w >= 1
         /\ calls[p].noteId # calls[q].noteId
         /\ x \in Range(calls[p].list) /\ x \in Range(calls[q].list))
        => /\ ContextNameOk(contexts)
           /\ \E c \in contexts :
                  /\ c.name = x
                  /\ Linked(links, calls[p].noteId, c.id)
                  /\ Linked(links, calls[q].noteId, c.id)

\* C38: when a deleteNote and an interleaved updateNote of the same note
\* with a non-empty list of contexts have both finished, every link is a
\* link of a note that has a row.
C38_NoLinkOfDeletedNote ==
    \A p, q \in Procs :
        (/\ Finished(p) /\ Finished(q)
         /\ calls[p].op = "deleteNote" /\ calls[q].op = "updateNote"
         /\ calls[p].noteId = calls[q].noteId
         /\ calls[q].hasContexts /\ Len(calls[q].list) > 0)
        => \A r \in DOMAIN links : notes[r.note_id].present

\* C39: when two interleaved updateNote calls on the same note, which
\* both found the note, with non-empty lists L1 and L2 have both finished,
\* the contexts the note is linked to are the names of L1 or the names of
\* L2, and no two of its links have the same context.
C39_ReplacedByOneList ==
    \A p, q \in Procs :
        (/\ p # q /\ Finished(p) /\ Finished(q)
         /\ calls[p].op = "updateNote" /\ calls[q].op = "updateNote"
         /\ calls[p].noteId = calls[q].noteId
         /\ calls[p].w >= 1 /\ calls[q].w >= 1
         /\ Len(calls[p].list) > 0 /\ Len(calls[q].list) > 0)
        => /\ fetchContextsForNote(links, contexts, calls[p].noteId)
                  \in {Range(calls[p].list), Range(calls[q].list)}
           /\ LinkPkOk(LinksOfNote(links, calls[p].noteId))

\* C36: when a renameContext in flight throws and runs ROLLBACK while the
\* other call has already returned, the note a returned createNote
\* inserted still has its row and the note a returned deleteNote deleted
\* still has none.
C36_RollbackKeepsOtherWrites ==
    [][\A p, q \in Procs :
          (/\ calls[p].op = "renameContext" /\ InFlight(p)
           /\ calls'[p].pc = "done" /\ calls'[p].err # "ok"
           /\ Finished(q) /\ calls[q].err = "ok")
          => /\ calls[q].op = "createNote"
                    => notes'[calls[q].noteId].present
             /\ calls[q].op = "deleteNote"
                    => ~notes'[calls[q].noteId].present]_vars

\* C40: fetchContextStatsPaginated reports as totalCount the number of
\* names of contexts that have a link, and hasMore exactly when offset
\* plus limit (30 and 0 when absent) is less than that number.
C40_StatsTotalAndHasMore ==
    LET total == Cardinality({c.name : c \in {x \in contexts :
                     \E r \in DOMAIN links : r.context_id = x.id}})
        limit == IF last.stats.hasLimit THEN last.stats.limit ELSE 30
        offset == IF last.stats.hasOffset THEN last.stats.offset ELSE 0
    IN  last.op = "fetchContextStatsPaginated"
        => /\ last.totalCount = total
           /\ last.hasMore <=> (offset + limit < total)

====
